---------------------------- MODULE Spec2Model ----------------------------
(***************************************************************************)
(* A model of the concurrency core of go-hass-agent:                       *)
(*   - the fan-in merger mergeSensorCh (internal/agent/agent.go),          *)
(*   - the D-Bus connection and signal watches (pkg/linux/dbusx/dbus.go),  *)
(*   - the pipeline producers -> merger -> tracker of runWorkers,          *)
(*   - the sensor tracker registry.                                        *)
(* Each goroutine is a process whose position is a program counter; each   *)
(* action is one step of one goroutine between two suspension points.      *)
(***************************************************************************)
EXTENDS Integers, Sequences, FiniteSets, TLC

(***************************************************************************)
(* Bounds of the model.                                                    *)
(***************************************************************************)
\* the largest number of source channels handed to mergeSensorCh
MaxSources == 2
\* the largest number of values the producers send, all sources together
MaxSend == 3

\* the largest number of AddWatch calls on the bus
MaxWatches == 2

\* capacity of a producer's output channel: make(chan tracker.Sensor, 1)
SrcCap == 1

\* the largest number of direct calls of the tracker's update
MaxUpdates == 4

\* a tracker.Sensor: its ID() and its value, in tenths (800 is 80.0)
Sensor(id, value) == [id |-> id, value |-> value]

\* the sensor values the producers of the merger's model send
Values == {Sensor("battery", 790), Sensor("battery", 800)}

\* the producers of the scenario: one emits battery = 80 and then battery =
\* 79, one stays idle, one emits disk_root = 42.5 once
Script ==
    << <<Sensor("battery", 800), Sensor("battery", 790)>>,
       <<>>,
       <<Sensor("disk_root", 425)>> >>

NumProducers == Len(Script)

AllSources ==
    1..(IF MaxSources > NumProducers THEN MaxSources ELSE NumProducers)

Watches == 1..MaxWatches

VARIABLES
    \* ---- mergeSensorCh ----
    nSrc,        \* len(sensorCh): the number of source channels
    sensorCh,    \* source -> [buf: values in the channel, closed: BOOLEAN]
    sent,        \* source -> the values sent on it so far (history)
    merged,      \* mergeSensorCh has been called
    outputPc,    \* source -> position of its output goroutine
    held,        \* source -> the value n its output goroutine holds
    wg,          \* the counter of the merger's sync.WaitGroup
    closerPc,    \* position of the goroutine that closes out
    outCloses,   \* how many times close(out) ran
    sendOnClosed,\* an output goroutine sent on out after close(out): a panic
    ctxDone,     \* the context given to the merger is cancelled
    received,    \* what the consumer received from out: <<[src, val], ...>>
    consumerPc   \* position of the goroutine ranging over out

mergeVars == <<nSrc, sensorCh, sent, merged, outputPc, held, wg, closerPc,
               outCloses, sendOnClosed, ctxDone, received, consumerPc>>

VARIABLES
    \* ---- Bus and busRequest.AddWatch ----
    bus,         \* the *Bus of NewBus: "none" (not called), "nil" (connecting
                 \* failed), "open", "closed" (conn.Close() ran)
    busCtxDone,  \* the context given to NewBus is cancelled
    lifePc,      \* position of the goroutine NewBus starts
    busWg,       \* the counter of Bus.wg
    connCloses,  \* how many times conn.Close() ran
    busPanic,    \* a goroutine panicked (close of a closed channel)
    watchPc,     \* watch -> position of its AddWatch call
    watchCtx,    \* watch -> the context given to AddWatch: "bus" or "own"
    ownCtxDone,  \* watch -> its own context is cancelled
    matchReg,    \* watch -> its match rules are registered on the connection
    chReg,       \* watch -> its signalCh is registered on the connection
    chCloses,    \* watch -> how many times its signalCh was closed
    dispPc,      \* watch -> position of its dispatch goroutine
    handling,    \* watch -> the signal its handler is running on
    released     \* watch -> r.bus.wg.Done() ran for it

busVars == <<bus, busCtxDone, lifePc, busWg, connCloses, busPanic, watchPc,
             watchCtx, ownCtxDone, matchReg, chReg, chCloses, dispPc,
             handling, released>>

VARIABLES
    \* ---- the sensor tracker and the dispatch of runWorkers ----
    registry,    \* the tracker's registry: a list of [id, value]
    applied,     \* the updates applied to the registry, in order (history)
    inflight     \* the received values (their positions in received) handed
                 \* to a goroutine that has not yet called the tracker

trackerVars == <<registry, applied, inflight>>

VARIABLES
    \* ---- disk.UsageUpdater: a producer and its output channel ----
    pollPc,      \* position of the polling goroutine (helpers.PollSensors
                 \* and, inside it, sendDiskUsageStats)
    part,        \* the index in the partition list the loop of
                 \* sendDiskUsageStats is at
    diskCloserPc \* position of the goroutine that closes sensorCh

diskVars == <<pollPc, part, diskCloserPc>>

VARIABLES
    \* ---- the agent: Run, Register, Stop, handleSignals ----
    mode,        \* the entry point called: "none", "run" or "register"
    runPc,       \* position of the goroutine that called Run or Register
    regPc,       \* position of the goroutine of registrationProcess
    cfgPc,       \* position of the goroutine that validates the config and
                 \* sets ctx and cancelFunc
    workPc,      \* position of the goroutine that starts the workers
    shutPc,      \* position of the goroutine that waits for agent.done
    sigPc,       \* position of the goroutine of handleSignals
    doneCloses,  \* how many times close(agent.done) ran
    agentPanic,  \* a goroutine of the agent panicked
    ctxSet,      \* ctx and cancelFunc of Run are assigned
    runWg,       \* the counter of Run's sync.WaitGroup wg
    workersPc,   \* position of the goroutine of agent.startWorkers
    scriptsPc,   \* position of the goroutine of agent.runScripts
    notifyPc     \* position of the goroutine of runNotificationsWorker

agentVars == <<mode, runPc, regPc, cfgPc, workPc, shutPc, sigPc, doneCloses,
               agentPanic, ctxSet, runWg, workersPc, scriptsPc, notifyPc>>

VARIABLES
    \* ---- the log of the dispatch loops of AddWatch ----
    nDelivered,  \* watch -> how many signals its dispatch loop received
    handled,     \* watch -> the signals (their positions in the order of
                 \* delivery) its handler was called with, in the order of
                 \* the calls
    nReturned    \* watch -> how many calls of its handler returned

sigVars == <<nDelivered, handled, nReturned>>

VARIABLES
    \* ---- the calls of a busRequest and the results they give ----
    remote,      \* the value of the property at the remote object
    calls,       \* the calls made on the connection (transport), in order
    reply,       \* what the transport answered to the last call
    ret,         \* what the last operation on the request returned
    data,        \* the *dbusData the last GetData returned
    out,         \* what the last typed extraction returned
    prev         \* what the operation before the last returned

reqVars == <<remote, calls, reply, ret, data, out, prev>>

VARIABLES
    \* ---- the connections NewBus makes ----
    dbusCtx,     \* the context NewBus made for the connection of the bus:
                 \* "none", "live" or "cancelled"
    conns,       \* every call of NewBus so far, in order: the scope asked
                 \* for, the state of the connection, of its context and of
                 \* its lifecycle goroutine
    reqs         \* the requests built so far, in order: the scope and the
                 \* handle carried (an index in conns, 0 for none)

connVars == <<dbusCtx, conns, reqs>>

VARIABLES
    \* ---- the IDs of the disk usage sensors ----
    mount,       \* partition -> its mount point (disk.UsageStat.Path), a
                 \* string as the sequence of its pieces
    sensorID     \* partition -> the ID() of its sensor, NoID before the call

idVars == <<mount, sensorID>>

VARIABLES
    \* ---- runScripts and its cron scheduler ----
    lookup,      \* what finding the scripts gives: "ok", "nopath" (StoragePath
                 \* fails) or "error" (FindScripts fails)
    allScripts,  \* the scripts found: the list of their schedules, each
                 \* "empty" (""), "valid" or "invalid" (AddJob rejects it)
    rsPc,        \* position of runScripts: "none", "find", "loop", "start",
                 \* "wait" (<-ctx.Done()), "stopping" (<-cronCtx.Done()),
                 \* "returned"
    idx,         \* the index of the loop over allScripts
    jobs,        \* the scripts added to the scheduler with AddJob
    outCh,       \* the scripts whose Output is in outCh, in order
    cronPc,      \* the scheduler: "new", "started" or "stopped"
    running,     \* the jobs that are running
    merging      \* whether mergeSensorCh(ctx, outCh...) was called

cronVars == <<lookup, allScripts, rsPc, idx, jobs, outCh, cronPc, running,
              merging>>

VARIABLES
    \* ---- the agent's preferences and agentConfig.Upgrade ----
    prefs,       \* the fyne preferences: key -> value; a string is the
                 \* sequence of its pieces, a version its three numbers
    stored,      \* the preferences before the first Upgrade (history)
    first,       \* the preferences after the first Upgrade (history)
    upgrades     \* how many times Upgrade has run

cfgVars == <<prefs, stored, first, upgrades>>

VARIABLES
    \* ---- runMQTTWorker and resetMQTTWorker ----
    savedReg,    \* MQTTRegistered in the saved preferences
    ctxReg,      \* MQTTRegistered in the preferences embedded in the context
    brokerReg,   \* whether the agent is registered over MQTT
    lastCall,    \* the last call of a worker: what it read and did (history)
    mqttCalls    \* how many calls of the workers were made

mqttVars == <<savedReg, ctxReg, brokerReg, lastCall, mqttCalls>>

VARIABLES
    \* ---- runNotificationsWorker ----
    nwPc,        \* position of runNotificationsWorker: "none", "wait"
                 \* (wg.Wait()) or "returned"
    handlerPc,   \* the goroutine that displays: "none", "select", "display"
                 \* or "returned"
    wsPc,        \* the goroutine that listens: "none", "select", "listening"
                 \* (in api.StartWebsocket), "sending" (in it, blocked in a
                 \* send on notifyCh) or "returned"
    nwWg,        \* the counter of the function's WaitGroup
    starts,      \* how many times api.StartWebsocket was called
    notes,       \* how many notifications the listener received
    shown        \* how many notifications were displayed

notifVars == <<nwPc, handlerPc, wsPc, nwWg, starts, notes, shown>>

\* the state of the workers of the agent and of the sensors' pure functions
workerVars == <<idVars, cronVars, cfgVars, mqttVars, notifVars>>

\* the state of everything but the workers
coreVars == <<mergeVars, busVars, trackerVars, diskVars, agentVars, sigVars,
              reqVars, connVars>>

\* the state of everything but one of the workers
exceptID == <<coreVars, cronVars, cfgVars, mqttVars, notifVars>>
exceptCron == <<coreVars, idVars, cfgVars, mqttVars, notifVars>>
exceptCfg == <<coreVars, idVars, cronVars, mqttVars, notifVars>>
exceptMQTT == <<coreVars, idVars, cronVars, cfgVars, notifVars>>
exceptNotif == <<coreVars, idVars, cronVars, cfgVars, mqttVars>>

\* the state of the components other than the merger, the bus and the tracker
extVars == <<diskVars, agentVars, sigVars, reqVars, connVars, workerVars>>

vars == <<mergeVars, busVars, trackerVars, extVars>>

Sources == 1..nSrc

\* the zero value of n before a value is received
NoValue == Sensor("", 0)

RECURSIVE SumLen(_, _)
SumLen(f, S) ==
    IF S = {} THEN 0
    ELSE LET x == CHOOSE y \in S : TRUE
         IN Len(f[x]) + SumLen(f, S \ {x})

TotalSent == SumLen(sent, AllSources)

(***************************************************************************)
(* The state before mergeSensorCh is called: the sources exist, open and   *)
(* empty, and no goroutine of the merger runs.                             *)
(***************************************************************************)
InitMergeWith(n) ==
    /\ nSrc = n
    /\ sensorCh = [s \in AllSources |-> [buf |-> <<>>, closed |-> FALSE]]
    /\ sent = [s \in AllSources |-> <<>>]
    /\ merged = FALSE
    /\ outputPc = [s \in AllSources |-> "none"]
    /\ held = [s \in AllSources |-> NoValue]
    /\ wg = 0
    /\ closerPc = "none"
    /\ outCloses = 0
    /\ sendOnClosed = FALSE
    /\ ctxDone = FALSE
    /\ received = <<>>
    /\ consumerPc = "none"

\* a signal selected by the match rules of watch m, the nil *dbus.Signal that a
\* receive from a closed channel yields, and no signal
Signal(m) == [nil |-> FALSE, rule |-> m]
NilSignal == [nil |-> TRUE, rule |-> 0]
NoSignal == [nil |-> FALSE, rule |-> 0]

\* the state before NewBus is called
InitBus ==
    /\ bus = "none"
    /\ busCtxDone = FALSE
    /\ lifePc = "none"
    /\ busWg = 0
    /\ connCloses = 0
    /\ busPanic = FALSE
    /\ watchPc = [w \in Watches |-> "idle"]
    /\ watchCtx = [w \in Watches |-> "none"]
    /\ ownCtxDone = [w \in Watches |-> FALSE]
    /\ matchReg = [w \in Watches |-> FALSE]
    /\ chReg = [w \in Watches |-> FALSE]
    /\ chCloses = [w \in Watches |-> 0]
    /\ dispPc = [w \in Watches |-> "none"]
    /\ handling = [w \in Watches |-> NoSignal]
    /\ released = [w \in Watches |-> FALSE]

\* tracker.NewSensorTracker: an empty registry
InitTracker ==
    /\ registry = <<>>
    /\ applied = <<>>
    /\ inflight = {}

\* the state before UsageUpdater is called
InitDisk ==
    /\ pollPc = "none"
    /\ part = 0
    /\ diskCloserPc = "none"

\* newAgent: done: make(chan struct{}); nothing runs yet
InitAgent ==
    /\ mode = "none"
    /\ runPc = "none"
    /\ regPc = "none"
    /\ cfgPc = "none"
    /\ workPc = "none"
    /\ shutPc = "none"
    /\ sigPc = "none"
    /\ doneCloses = 0
    /\ agentPanic = FALSE
    /\ ctxSet = FALSE
    /\ runWg = 0
    /\ workersPc = "none"
    /\ scriptsPc = "none"
    /\ notifyPc = "none"

\* no signal was delivered yet
InitSig ==
    /\ nDelivered = [w \in Watches |-> 0]
    /\ handled = [w \in Watches |-> <<>>]
    /\ nReturned = [w \in Watches |-> 0]

(***************************************************************************)
(* Go values as the bus layer sees them: a dynamic value is its type and   *)
(* its content; isnil tells a nil map, slice or interface from an empty    *)
(* one.                                                                    *)
(***************************************************************************)
GoNil == [isnil |-> TRUE, kind |-> "nil", val |-> <<>>]
Str(s) == [isnil |-> FALSE, kind |-> "string", val |-> s]
ObjectPath(s) == [isnil |-> FALSE, kind |-> "ObjectPath", val |-> s]
StringList(q) == [isnil |-> FALSE, kind |-> "[]string", val |-> q]
ObjectPathList(q) == [isnil |-> FALSE, kind |-> "[]ObjectPath", val |-> q]
\* a map is a function from its keys
AnyMap(f) == [isnil |-> FALSE, kind |-> "map[string]any", val |-> f]
StringMap(f) == [isnil |-> FALSE, kind |-> "map[string]string", val |-> f]
VariantMap(f) == [isnil |-> FALSE, kind |-> "map[string]Variant", val |-> f]
\* dbus.MakeVariant(v)
MakeVariant(v) == [isnil |-> FALSE, kind |-> "Variant", val |-> v]

\* the zero value of a type: var value S
Zero(kind) ==
    CASE kind = "string" -> Str("")
      [] kind = "ObjectPath" -> ObjectPath("")
      [] OTHER -> [isnil |-> TRUE, kind |-> kind, val |-> <<>>]

\* a *dbusData: nil, or a pointer to a struct with its data
NilData == [isnil |-> TRUE, data |-> GoNil]
DataOf(v) == [isnil |-> FALSE, data |-> v]

\* what an operation on a request returned to its caller: the operation,
\* its number, the error and the value (for GetProp the variant, for
\* GetData nothing: its result is data)
Returns(n, op, err, val) == [seq |-> n, op |-> op, err |-> err, val |-> val]

\* an answer of the transport: the error and the body of the reply
Reply(err, body) == [err |-> err, body |-> body]

\* the state of a request before any operation on it
InitReq ==
    /\ remote = MakeVariant(Str("on"))
    /\ calls = <<>>
    /\ reply = Reply("nil", <<>>)
    /\ ret = Returns(0, "none", "nil", GoNil)
    /\ data = NilData
    /\ out = [f |-> "none", val |-> GoNil]
    /\ prev = Returns(0, "none", "nil", GoNil)

\* the state before NewBus is called
InitConn ==
    /\ dbusCtx = "none"
    /\ conns = <<>>
    /\ reqs = <<>>

\* the partitions whose sensors are compared
MaxMounts == 2

Mounts == 1..MaxMounts

\* the longest mount point, in pieces
MaxPath == 3

\* the pieces of a mount point: the separator, the underscore and a name.
\* No piece is a prefix of another, so two strings are equal exactly when
\* their sequences of pieces are.
Pieces == {"/", "_", "root"}

\* the mount points: absolute paths of at most MaxPath pieces
MountPoints ==
    UNION {{<<"/">> \o s : s \in [1..n -> Pieces]} : n \in 0..(MaxPath - 1)}

\* no ID() was called yet
NoID == <<>>

\* before any partition is listed
InitID ==
    /\ mount = [p \in Mounts |-> <<"/">>]
    /\ sensorID = [p \in Mounts |-> NoID]

\* the most scripts found
MaxScripts == 2

\* before runScripts is called, with no script to be found
InitCron ==
    /\ lookup = "ok"
    /\ allScripts = <<>>
    /\ rsPc = "none"
    /\ idx = 0
    /\ jobs = {}
    /\ outCh = <<>>
    /\ cronPc = "new"
    /\ running = {}
    /\ merging = FALSE

\* Version: the version of the agent that is running, a release not
\* older than the last one Upgrade names
Version == <<1, 4, 4>>

\* the preferences of an agent of version v, with the given values
Prefs(v, host, tls, webhook, cloudhook, remoteUI) ==
    [Version |-> v, Host |-> host, UseTLS |-> tls, WebhookID |-> webhook,
     CloudhookURL |-> cloudhook, RemoteUIURL |-> remoteUI,
     ApiURL |-> <<>>, WebSocketURL |-> <<>>]

\* the preferences of a new agent: nothing is stored, and
\* StringWithFallback("Version", Version) gives Version
InitCfg ==
    /\ prefs = Prefs(Version, <<>>, FALSE, <<>>, <<>>, <<>>)
    /\ stored = prefs
    /\ first = prefs
    /\ upgrades = 0

\* what a call of a worker did: fn is the function, saw the value of
\* prefs.MQTTRegistered it read, before the saved value when it was called,
\* register and unregister the outcome of the attempt ("none": not
\* attempted), subscribed whether Subscribe was called
WorkerCall(fn, saw, before, register, unregister, subscribed) ==
    [fn |-> fn, saw |-> saw, before |-> before, register |-> register,
     unregister |-> unregister, subscribed |-> subscribed]

NoCall == WorkerCall("none", FALSE, FALSE, "none", "none", FALSE)

\* a new agent: not registered, and the context holds the preferences
\* loaded from storage
InitMQTT ==
    /\ savedReg = FALSE
    /\ ctxReg = FALSE
    /\ brokerReg = FALSE
    /\ lastCall = NoCall
    /\ mqttCalls = 0

\* before runNotificationsWorker is called
InitNotif ==
    /\ nwPc = "none"
    /\ handlerPc = "none"
    /\ wsPc = "none"
    /\ nwWg = 0
    /\ starts = 0
    /\ notes = 0
    /\ shown = 0

InitWorker ==
    /\ InitID
    /\ InitCron
    /\ InitCfg
    /\ InitMQTT
    /\ InitNotif

InitExt ==
    /\ InitDisk
    /\ InitAgent
    /\ InitSig
    /\ InitReq
    /\ InitConn
    /\ InitWorker

Init ==
    /\ \E n \in 0..MaxSources : InitMergeWith(n)
    /\ InitBus
    /\ InitTracker
    /\ InitExt

(***************************************************************************)
(* The producers and the owner of the context: the merger's environment.   *)
(***************************************************************************)
\* a producer sends v on its output channel (the send completes when the
\* channel has room)
SrcSend(s, v) ==
    /\ ~sensorCh[s].closed
    /\ Len(sensorCh[s].buf) < SrcCap
    /\ TotalSent < MaxSend
    /\ sensorCh' = [sensorCh EXCEPT ![s].buf = Append(@, v)]
    /\ sent' = [sent EXCEPT ![s] = Append(@, v)]
    /\ UNCHANGED <<nSrc, merged, outputPc, held, wg, closerPc, outCloses,
                   sendOnClosed, ctxDone, received, consumerPc>>
    /\ UNCHANGED <<busVars, trackerVars, extVars>>

\* a producer closes its output channel
SrcClose(s) ==
    /\ ~sensorCh[s].closed
    /\ sensorCh' = [sensorCh EXCEPT ![s].closed = TRUE]
    /\ UNCHANGED <<nSrc, sent, merged, outputPc, held, wg, closerPc, outCloses,
                   sendOnClosed, ctxDone, received, consumerPc>>
    /\ UNCHANGED <<busVars, trackerVars, extVars>>

\* the context is cancelled
Cancel ==
    /\ ~ctxDone
    /\ ctxDone' = TRUE
    /\ UNCHANGED <<nSrc, sensorCh, sent, merged, outputPc, held, wg, closerPc,
                   outCloses, sendOnClosed, received, consumerPc>>
    /\ UNCHANGED <<busVars, trackerVars, extVars>>

(***************************************************************************)
(* mergeSensorCh(ctx, sensorCh...): wg.Add(len(sensorCh)), one output      *)
(* goroutine per source, the closing goroutine; returns out, over which    *)
(* the caller ranges.                                                      *)
(***************************************************************************)
mergeSensorCh ==
    /\ ~merged
    /\ merged' = TRUE
    /\ wg' = nSrc
    /\ outputPc' = [s \in AllSources |-> IF s \in Sources THEN "range" ELSE "none"]
    /\ closerPc' = "wait"
    /\ consumerPc' = "range"
    /\ UNCHANGED <<nSrc, sensorCh, sent, held, outCloses, sendOnClosed,
                   ctxDone, received>>
    /\ UNCHANGED <<busVars, trackerVars, extVars>>

\* for n := range c: a value is in the channel
OutputRecv(s) ==
    /\ outputPc[s] = "range"
    /\ sensorCh[s].buf # <<>>
    /\ held' = [held EXCEPT ![s] = Head(sensorCh[s].buf)]
    /\ sensorCh' = [sensorCh EXCEPT ![s].buf = Tail(@)]
    /\ outputPc' = [outputPc EXCEPT ![s] = "select"]
    /\ UNCHANGED <<nSrc, sent, merged, wg, closerPc, outCloses, sendOnClosed,
                   ctxDone, received, consumerPc>>
    /\ UNCHANGED <<busVars, trackerVars, extVars>>

\* for n := range c: c is closed and drained; the loop ends, the goroutine
\* returns and its deferred wg.Done() runs
OutputSrcClosed(s) ==
    /\ outputPc[s] = "range"
    /\ sensorCh[s].buf = <<>>
    /\ sensorCh[s].closed
    /\ outputPc' = [outputPc EXCEPT ![s] = "returned"]
    /\ wg' = wg - 1
    /\ UNCHANGED <<nSrc, sensorCh, sent, merged, held, closerPc, outCloses,
                   sendOnClosed, ctxDone, received, consumerPc>>
    /\ UNCHANGED <<busVars, trackerVars, extVars>>

\* a variant of OutputSend with a non-blocking send: the value is dropped
OutputSendDrop(s) ==
    /\ outputPc[s] = "select"
    /\ outputPc' = [outputPc EXCEPT ![s] = "range"]
    /\ held' = [held EXCEPT ![s] = NoValue]
    /\ UNCHANGED <<nSrc, sensorCh, sent, merged, wg, closerPc, outCloses,
                   sendOnClosed, ctxDone, received, consumerPc>>
    /\ UNCHANGED <<busVars, trackerVars, extVars>>

\* a variant of OutputSend that hands the send to a goroutine of its own, so
\* that a later value of the source can overtake it
OutputSendAsync(s) ==
    /\ outputPc[s] = "select"
    /\ outCloses = 0
    /\ consumerPc = "range"
    /\ \E i \in 0..Len(received) :
          received' = SubSeq(received, 1, i)
                      \o <<[src |-> s, val |-> held[s]]>>
                      \o SubSeq(received, i + 1, Len(received))
    /\ consumerPc' = "busy"
    /\ outputPc' = [outputPc EXCEPT ![s] = "range"]
    /\ held' = [held EXCEPT ![s] = NoValue]
    /\ UNCHANGED <<nSrc, sensorCh, sent, merged, wg, closerPc, outCloses,
                   sendOnClosed, ctxDone>>
    /\ UNCHANGED <<busVars, trackerVars, extVars>>

\* a variant of OutputSend in which the consumer's receive prefers the
\* waiting sender of the lowest-numbered source
OutputSendPriority(s) ==
    /\ outputPc[s] = "select"
    /\ outCloses = 0
    /\ consumerPc = "range"
    /\ \A t \in Sources : t < s => outputPc[t] # "select"
    /\ received' = Append(received, [src |-> s, val |-> held[s]])
    /\ consumerPc' = "busy"
    /\ outputPc' = [outputPc EXCEPT ![s] = "range"]
    /\ held' = [held EXCEPT ![s] = NoValue]
    /\ UNCHANGED <<nSrc, sensorCh, sent, merged, wg, closerPc, outCloses,
                   sendOnClosed, ctxDone>>
    /\ UNCHANGED <<busVars, trackerVars, extVars>>

\* select { case out <- n: }: out is unbuffered, so the send completes with a
\* receive of the consumer; a send on a closed out panics
OutputSend(s) ==
    /\ outputPc[s] = "select"
    /\ IF outCloses > 0
       THEN /\ sendOnClosed' = TRUE
            /\ outputPc' = [outputPc EXCEPT ![s] = "panicked"]
            /\ UNCHANGED <<held, received, consumerPc>>
       ELSE /\ consumerPc = "range"
            /\ received' = Append(received, [src |-> s, val |-> held[s]])
            /\ consumerPc' = "busy"
            /\ outputPc' = [outputPc EXCEPT ![s] = "range"]
            /\ held' = [held EXCEPT ![s] = NoValue]
            /\ UNCHANGED sendOnClosed
    /\ UNCHANGED <<nSrc, sensorCh, sent, merged, wg, closerPc, outCloses,
                   ctxDone>>
    /\ UNCHANGED <<busVars, trackerVars, extVars>>

\* a variant of OutputCtxDone that looks at the context at the head of the
\* loop only, not while the send is pending
OutputCtxDoneAtLoopHead(s) ==
    /\ outputPc[s] = "range"
    /\ ctxDone
    /\ outputPc' = [outputPc EXCEPT ![s] = "returned"]
    /\ wg' = wg - 1
    /\ UNCHANGED <<nSrc, sensorCh, sent, merged, held, closerPc, outCloses,
                   sendOnClosed, ctxDone, received, consumerPc>>
    /\ UNCHANGED <<busVars, trackerVars, extVars>>

\* a variant of OutputCtxDone that also empties the source's channel
OutputCtxDoneDrain(s) ==
    /\ outputPc[s] = "select"
    /\ ctxDone
    /\ outputPc' = [outputPc EXCEPT ![s] = "returned"]
    /\ sensorCh' = [sensorCh EXCEPT ![s].buf = <<>>]
    /\ wg' = wg - 1
    /\ UNCHANGED <<nSrc, sent, merged, held, closerPc, outCloses,
                   sendOnClosed, ctxDone, received, consumerPc>>
    /\ UNCHANGED <<busVars, trackerVars, extVars>>

\* select { case <-ctx.Done(): return }: the held value is abandoned, the
\* goroutine returns and its deferred wg.Done() runs
OutputCtxDone(s) ==
    /\ outputPc[s] = "select"
    /\ ctxDone
    /\ outputPc' = [outputPc EXCEPT ![s] = "returned"]
    /\ wg' = wg - 1
    /\ UNCHANGED <<nSrc, sensorCh, sent, merged, held, closerPc, outCloses,
                   sendOnClosed, ctxDone, received, consumerPc>>
    /\ UNCHANGED <<busVars, trackerVars, extVars>>

\* a variant of CloserWait without the join barrier
CloserWaitNoBarrier ==
    /\ closerPc = "wait"
    /\ closerPc' = "close"
    /\ UNCHANGED <<nSrc, sensorCh, sent, merged, outputPc, held, wg, outCloses,
                   sendOnClosed, ctxDone, received, consumerPc>>
    /\ UNCHANGED <<busVars, trackerVars, extVars>>

\* a variant of CloserWait that also waits for the cancellation
CloserWaitOnCancel ==
    /\ closerPc = "wait"
    /\ wg = 0
    /\ ctxDone
    /\ closerPc' = "close"
    /\ UNCHANGED <<nSrc, sensorCh, sent, merged, outputPc, held, wg, outCloses,
                   sendOnClosed, ctxDone, received, consumerPc>>
    /\ UNCHANGED <<busVars, trackerVars, extVars>>

\* wg.Wait() returns once the counter is zero
CloserWait ==
    /\ closerPc = "wait"
    /\ wg = 0
    /\ closerPc' = "close"
    /\ UNCHANGED <<nSrc, sensorCh, sent, merged, outputPc, held, wg, outCloses,
                   sendOnClosed, ctxDone, received, consumerPc>>
    /\ UNCHANGED <<busVars, trackerVars, extVars>>

\* close(out)
CloserClose ==
    /\ closerPc = "close"
    /\ outCloses' = outCloses + 1
    /\ closerPc' = "done"
    /\ UNCHANGED <<nSrc, sensorCh, sent, merged, outputPc, held, wg,
                   sendOnClosed, ctxDone, received, consumerPc>>
    /\ UNCHANGED <<busVars, trackerVars, extVars>>

(***************************************************************************)
(* The consumer: for s := range mergeSensorCh(...) { ... }                 *)
(***************************************************************************)
\* the loop body is done with the value; the consumer receives again
ConsumerNext ==
    /\ consumerPc = "busy"
    /\ consumerPc' = "range"
    /\ UNCHANGED <<nSrc, sensorCh, sent, merged, outputPc, held, wg, closerPc,
                   outCloses, sendOnClosed, ctxDone, received>>
    /\ UNCHANGED <<busVars, trackerVars, extVars>>

\* out is closed: the range loop ends
ConsumerClosed ==
    /\ consumerPc = "range"
    /\ outCloses > 0
    /\ consumerPc' = "done"
    /\ UNCHANGED <<nSrc, sensorCh, sent, merged, outputPc, held, wg, closerPc,
                   outCloses, sendOnClosed, ctxDone, received>>
    /\ UNCHANGED <<busVars, trackerVars, extVars>>

MergerStep ==
    \/ \E s \in Sources : OutputRecv(s)
    \/ \E s \in Sources : OutputSrcClosed(s)
    \/ \E s \in Sources : OutputSend(s)
    \/ \E s \in Sources : OutputCtxDone(s)
    \/ CloserWait
    \/ CloserClose

Next ==
    \/ \E s \in Sources, v \in Values : SrcSend(s, v)
    \/ \E s \in Sources : SrcClose(s)
    \/ Cancel
    \/ mergeSensorCh
    \/ MergerStep
    \/ ConsumerNext
    \/ ConsumerClosed

Spec == Init /\ [][Next]_vars

\* every goroutine of the merger that can take a step eventually takes one
\* (the Go scheduler); nothing is assumed of the producers, of the consumer or
\* of the owner of the context
MergeFairness ==
    /\ WF_vars(mergeSensorCh)
    /\ \A s \in AllSources :
          WF_vars(OutputRecv(s) \/ OutputSrcClosed(s) \/ OutputSend(s)
                  \/ OutputCtxDone(s))
    /\ WF_vars(CloserWait \/ CloserClose)

FairSpec == Init /\ [][Next]_vars /\ MergeFairness

(***************************************************************************)
(* Properties of the merger.                                               *)
(***************************************************************************)
\* how often v occurs in seq
Count(seq, v) == Cardinality({i \in DOMAIN seq : seq[i] = v})

RECURSIVE SentCount(_, _)
SentCount(S, v) ==
    IF S = {} THEN 0
    ELSE LET x == CHOOSE y \in S : TRUE
         IN Count(sent[x], v) + SentCount(S \ {x}, v)

RecvCount(v) == Cardinality({i \in DOMAIN received : received[i].val = v})

\* the values received from source s, in the order of their reception
RECURSIVE FromSource(_, _)
FromSource(seq, s) ==
    IF seq = <<>> THEN <<>>
    ELSE IF Head(seq).src = s
         THEN <<Head(seq).val>> \o FromSource(Tail(seq), s)
         ELSE FromSource(Tail(seq), s)

IsPrefix(p, q) == Len(p) <= Len(q) /\ SubSeq(q, 1, Len(p)) = p

\* C1: out is closed at most once, no output goroutine sends on out after it
\* was closed, out is closed (and close(out) is reached) only when every
\* output goroutine has returned, and while a source is open and the context
\* is not cancelled out stays open.
C1_JoinBarrier ==
    /\ ~sendOnClosed
    /\ outCloses <= 1
    /\ (outCloses > 0 \/ closerPc \in {"close", "done"})
          => \A s \in Sources : outputPc[s] = "returned"
    /\ (merged /\ ~ctxDone /\ \E s \in Sources : ~sensorCh[s].closed)
          => outCloses = 0

\* C1 witness: out was closed after two output goroutines forwarded values and
\* returned, one of them on cancellation.
C1_Witness ==
    /\ outCloses = 1
    /\ nSrc >= 2
    /\ Len(received) >= 2
    /\ ctxDone
    /\ \E s \in Sources : ~sensorCh[s].closed

\* C2 (as claimed): once the merger runs and its context is cancelled, out is
\* eventually closed.
C2_CancelClosesSink == (merged /\ ctxDone) ~> (outCloses > 0)

\* C3: the values received are a sub-multiset of the values sent (none is
\* invented or duplicated), and when out is closed without the context having
\* been cancelled, the values received are exactly the values sent.
C3_MultisetUnion ==
    /\ \A v \in Values \cup {NoValue} : RecvCount(v) <= SentCount(Sources, v)
    /\ \A i \in DOMAIN received : received[i].val \in Values
    /\ (outCloses > 0 /\ ~ctxDone)
          => \A v \in Values : RecvCount(v) = SentCount(Sources, v)

\* C3 witness: two sources, both closed, never cancelled, out closed and every
\* one of the MaxSend values received, two of them equal.
C3_Witness ==
    /\ outCloses = 1
    /\ ~ctxDone
    /\ nSrc >= 2
    /\ \A s \in Sources : sent[s] # <<>>
    /\ Len(received) = MaxSend
    /\ \E v \in Values : RecvCount(v) >= 2

\* C4: the values received from one source are, in their order, a prefix of
\* the values sent on that source.
C4_SourceOrder ==
    \A s \in Sources : IsPrefix(FromSource(received, s), sent[s])

\* C4 witness: two different values of one source were received, and a value
\* of another source between them.
C4_Witness ==
    \E i, j, k \in DOMAIN received :
        /\ i < j /\ j < k
        /\ received[i].src = received[k].src
        /\ received[i].val # received[k].val
        /\ received[j].src # received[i].src

(***************************************************************************)
(* The bus connection (NewBus) and the signal watches (AddWatch).          *)
(*                                                                         *)
(* What the model takes from github.com/godbus/dbus/v5:                    *)
(*   conn.Signal(ch) registers ch, and does nothing on a closed conn;      *)
(*   conn.RemoveSignal(ch) removes ch and does not close it;               *)
(*   conn.Close() closes every channel still registered with conn.Signal;  *)
(*   a signal that reaches the connection is delivered to every channel    *)
(*   registered with conn.Signal;                                          *)
(*   AddMatchSignalContext / RemoveMatchSignalContext fail on a closed     *)
(*   connection and on a cancelled context.                                *)
(***************************************************************************)
WatchCtxDone(w) ==
    IF watchCtx[w] = "bus" THEN busCtxDone ELSE ownCtxDone[w]

DispatchRunning(w) == dispPc[w] \in {"select", "handling"}

\* NewBus: the connection is made; the lifecycle goroutine starts
NewBusOk ==
    /\ ~busPanic
    /\ bus = "none"
    /\ bus' = "open"
    /\ lifePc' = "waitCtx"
    /\ UNCHANGED <<busCtxDone, busWg, connCloses, busPanic, watchPc, watchCtx,
                   ownCtxDone, matchReg, chReg, chCloses, dispPc, handling,
                   released>>
    /\ dbusCtx' = "live"
    /\ UNCHANGED <<mergeVars, trackerVars, diskVars, agentVars, sigVars,
                   reqVars, conns, reqs, workerVars>>

\* a variant of NewBusFail that returns nil without calling cancelFunc()
NewBusFailLeak ==
    /\ ~busPanic
    /\ bus = "none"
    /\ bus' = "nil"
    /\ UNCHANGED <<busCtxDone, lifePc, busWg, connCloses, busPanic, watchPc,
                   watchCtx, ownCtxDone, matchReg, chReg, chCloses, dispPc,
                   handling, released>>
    /\ dbusCtx' = "live"
    /\ UNCHANGED <<mergeVars, trackerVars, diskVars, agentVars, sigVars,
                   reqVars, conns, reqs, workerVars>>

\* NewBus: connecting fails; cancelFunc() and return nil
NewBusFail ==
    /\ ~busPanic
    /\ bus = "none"
    /\ bus' = "nil"
    /\ UNCHANGED <<busCtxDone, lifePc, busWg, connCloses, busPanic, watchPc,
                   watchCtx, ownCtxDone, matchReg, chReg, chCloses, dispPc,
                   handling, released>>
    /\ dbusCtx' = "cancelled"
    /\ UNCHANGED <<mergeVars, trackerVars, diskVars, agentVars, sigVars,
                   reqVars, conns, reqs, workerVars>>

\* the context given to NewBus is cancelled
BusCancel ==
    /\ ~busPanic
    /\ ~busCtxDone
    /\ busCtxDone' = TRUE
    /\ UNCHANGED <<bus, lifePc, busWg, connCloses, busPanic, watchPc, watchCtx,
                   ownCtxDone, matchReg, chReg, chCloses, dispPc, handling,
                   released>>
    /\ UNCHANGED <<mergeVars, trackerVars, extVars>>

\* a context given to AddWatch that is not the bus's context is cancelled
WatchCancel(w) ==
    /\ ~busPanic
    /\ watchCtx[w] = "own"
    /\ ~ownCtxDone[w]
    /\ ownCtxDone' = [ownCtxDone EXCEPT ![w] = TRUE]
    /\ UNCHANGED <<bus, busCtxDone, lifePc, busWg, connCloses, busPanic,
                   watchPc, watchCtx, matchReg, chReg, chCloses, dispPc,
                   handling, released>>
    /\ UNCHANGED <<mergeVars, trackerVars, extVars>>

\* the lifecycle goroutine: <-ctx.Done()
LifeCtxDone ==
    /\ ~busPanic
    /\ lifePc = "waitCtx"
    /\ busCtxDone
    /\ lifePc' = "waitWg"
    /\ UNCHANGED <<bus, busCtxDone, busWg, connCloses, busPanic, watchPc,
                   watchCtx, ownCtxDone, matchReg, chReg, chCloses, dispPc,
                   handling, released>>
    /\ UNCHANGED <<mergeVars, trackerVars, extVars>>

\* the lifecycle goroutine: b.wg.Wait() returns once the counter is zero
LifeWgWait ==
    /\ ~busPanic
    /\ lifePc = "waitWg"
    /\ busWg = 0
    /\ lifePc' = "close"
    /\ UNCHANGED <<bus, busCtxDone, busWg, connCloses, busPanic, watchPc,
                   watchCtx, ownCtxDone, matchReg, chReg, chCloses, dispPc,
                   handling, released>>
    /\ UNCHANGED <<mergeVars, trackerVars, extVars>>

\* the lifecycle goroutine returns: the deferred cancelFunc() and conn.Close()
\* run; conn.Close() closes the channels still registered, and the connection's
\* match rules go with it
LifeClose ==
    /\ ~busPanic
    /\ lifePc = "close"
    /\ lifePc' = "done"
    /\ bus' = "closed"
    /\ connCloses' = connCloses + 1
    /\ chCloses' = [w \in Watches |->
                       IF chReg[w] THEN chCloses[w] + 1 ELSE chCloses[w]]
    /\ chReg' = [w \in Watches |-> FALSE]
    /\ matchReg' = [w \in Watches |-> FALSE]
    /\ UNCHANGED <<busCtxDone, busWg, busPanic, watchPc, watchCtx, ownCtxDone,
                   dispPc, handling, released>>
    /\ dbusCtx' = "cancelled"
    /\ UNCHANGED <<mergeVars, trackerVars, diskVars, agentVars, sigVars,
                   reqVars, conns, reqs, workerVars>>

\* AddWatch on a request without a bus: "no bus connection"
AddWatchNoBus(w) ==
    /\ ~busPanic
    /\ watchPc[w] = "idle"
    /\ \A u \in Watches : u < w => watchPc[u] # "idle"
    /\ bus = "nil"
    /\ watchPc' = [watchPc EXCEPT ![w] = "noconn"]
    /\ UNCHANGED <<bus, busCtxDone, lifePc, busWg, connCloses, busPanic,
                   watchCtx, ownCtxDone, matchReg, chReg, chCloses, dispPc,
                   handling, released>>
    /\ UNCHANGED <<mergeVars, trackerVars, extVars>>

\* AddWatch(ctx), first half: AddMatchSignalContext(ctx, r.match...) succeeds.
\* c says which context the caller passes: the bus's or one of its own.
AddWatchMatch(w, c) ==
    /\ ~busPanic
    /\ watchPc[w] = "idle"
    /\ \A u \in Watches : u < w => watchPc[u] # "idle"
    /\ bus = "open"
    /\ ~(c = "bus" /\ busCtxDone)
    /\ watchCtx' = [watchCtx EXCEPT ![w] = c]
    /\ matchReg' = [matchReg EXCEPT ![w] = TRUE]
    /\ watchPc' = [watchPc EXCEPT ![w] = "matched"]
    /\ UNCHANGED <<bus, busCtxDone, lifePc, busWg, connCloses, busPanic,
                   ownCtxDone, chReg, chCloses, dispPc, handling, released>>
    /\ UNCHANGED <<mergeVars, trackerVars, extVars>>

\* a variant of AddWatchMatchFail that registers the delivery channel and
\* raises the wait counter before it adds the match rules
AddWatchMatchFailLate(w) ==
    /\ ~busPanic
    /\ watchPc[w] = "idle"
    /\ \A u \in Watches : u < w => watchPc[u] # "idle"
    /\ bus \in {"open", "closed"}
    /\ watchPc' = [watchPc EXCEPT ![w] = "failed"]
    /\ chReg' = [chReg EXCEPT ![w] = (bus = "open")]
    /\ busWg' = busWg + 1
    /\ UNCHANGED <<bus, busCtxDone, lifePc, connCloses, busPanic, watchCtx,
                   ownCtxDone, matchReg, chCloses, dispPc, handling, released>>
    /\ UNCHANGED <<mergeVars, trackerVars, extVars>>

\* AddWatch(ctx), first half: AddMatchSignalContext fails (closed connection,
\* cancelled context, an error of the bus); AddWatch returns the error
AddWatchMatchFail(w) ==
    /\ ~busPanic
    /\ watchPc[w] = "idle"
    /\ \A u \in Watches : u < w => watchPc[u] # "idle"
    /\ bus \in {"open", "closed"}
    /\ watchPc' = [watchPc EXCEPT ![w] = "failed"]
    /\ UNCHANGED <<bus, busCtxDone, lifePc, busWg, connCloses, busPanic,
                   watchCtx, ownCtxDone, matchReg, chReg, chCloses, dispPc,
                   handling, released>>
    /\ UNCHANGED <<mergeVars, trackerVars, extVars>>

\* AddWatch(ctx), second half: signalCh is made and registered with
\* conn.Signal, r.bus.wg.Add(1), the dispatch goroutine and the goroutine that
\* waits for it start, AddWatch returns nil
AddWatchStart(w) ==
    /\ ~busPanic
    /\ watchPc[w] = "matched"
    /\ chReg' = [chReg EXCEPT ![w] = (bus = "open")]
    /\ busWg' = busWg + 1
    /\ dispPc' = [dispPc EXCEPT ![w] = "select"]
    /\ watchPc' = [watchPc EXCEPT ![w] = "returned"]
    /\ UNCHANGED <<bus, busCtxDone, lifePc, connCloses, busPanic, watchCtx,
                   ownCtxDone, matchReg, chCloses, handling, released>>
    /\ UNCHANGED <<mergeVars, trackerVars, extVars>>

\* RemoveWatch: RemoveMatchSignalContext(ctx, r.match...) succeeds
RemoveWatch(w) ==
    /\ ~busPanic
    /\ bus = "open"
    /\ matchReg[w]
    /\ matchReg' = [matchReg EXCEPT ![w] = FALSE]
    /\ UNCHANGED <<bus, busCtxDone, lifePc, busWg, connCloses, busPanic,
                   watchPc, watchCtx, ownCtxDone, chReg, chCloses, dispPc,
                   handling, released>>
    /\ UNCHANGED <<mergeVars, trackerVars, extVars>>

\* the connection delivers a signal, selected by the match rules of watch m,
\* to the registered channel of watch w: case signal := <-signalCh
Receive(w, m) ==
    /\ ~busPanic
    /\ bus = "open"
    /\ matchReg[m]
    /\ chReg[w]
    /\ dispPc[w] = "select"
    /\ dispPc' = [dispPc EXCEPT ![w] = "handling"]
    /\ handling' = [handling EXCEPT ![w] = Signal(m)]
    /\ UNCHANGED <<bus, busCtxDone, lifePc, busWg, connCloses, busPanic,
                   watchPc, watchCtx, ownCtxDone, matchReg, chReg, chCloses,
                   released>>
    /\ UNCHANGED <<mergeVars, trackerVars, diskVars, agentVars, reqVars,
                   connVars, workerVars>>

\* the same, not logged
Deliver(w, m) ==
    /\ Receive(w, m)
    /\ UNCHANGED sigVars

\* case signal := <-signalCh on a closed signalCh: the receive yields nil
DispatchRecvClosed(w) ==
    /\ ~busPanic
    /\ dispPc[w] = "select"
    /\ chCloses[w] > 0
    /\ dispPc' = [dispPc EXCEPT ![w] = "handling"]
    /\ handling' = [handling EXCEPT ![w] = NilSignal]
    /\ UNCHANGED <<bus, busCtxDone, lifePc, busWg, connCloses, busPanic,
                   watchPc, watchCtx, ownCtxDone, matchReg, chReg, chCloses,
                   released>>
    /\ UNCHANGED <<mergeVars, trackerVars, extVars>>

\* r.eventHandler(signal) returns; the loop selects again
Returned(w) ==
    /\ ~busPanic
    /\ dispPc[w] = "handling"
    /\ dispPc' = [dispPc EXCEPT ![w] = "select"]
    /\ handling' = [handling EXCEPT ![w] = NoSignal]
    /\ UNCHANGED <<bus, busCtxDone, lifePc, busWg, connCloses, busPanic,
                   watchPc, watchCtx, ownCtxDone, matchReg, chReg, chCloses,
                   released>>
    /\ UNCHANGED <<mergeVars, trackerVars, diskVars, agentVars, reqVars,
                   connVars, workerVars>>

\* the same, not logged
HandlerReturn(w) ==
    /\ Returned(w)
    /\ UNCHANGED sigVars

\* case <-ctx.Done(): conn.RemoveSignal(signalCh); close(signalCh); return.
\* Closing a channel that is already closed panics.
DispatchCtxDone(w) ==
    /\ ~busPanic
    /\ dispPc[w] = "select"
    /\ WatchCtxDone(w)
    /\ chReg' = [chReg EXCEPT ![w] = FALSE]
    /\ IF chCloses[w] > 0
       THEN /\ busPanic' = TRUE
            /\ dispPc' = [dispPc EXCEPT ![w] = "panicked"]
            /\ UNCHANGED chCloses
       ELSE /\ chCloses' = [chCloses EXCEPT ![w] = 1]
            /\ dispPc' = [dispPc EXCEPT ![w] = "exited"]
            /\ UNCHANGED busPanic
    /\ UNCHANGED <<bus, busCtxDone, lifePc, busWg, connCloses, watchPc,
                   watchCtx, ownCtxDone, matchReg, handling, released>>
    /\ UNCHANGED <<mergeVars, trackerVars, extVars>>

\* a variant of WaiterDone that does not wait for the dispatch goroutine
WaiterDoneEarly(w) ==
    /\ ~busPanic
    /\ dispPc[w] # "none"
    /\ ~released[w]
    /\ released' = [released EXCEPT ![w] = TRUE]
    /\ busWg' = busWg - 1
    /\ UNCHANGED <<bus, busCtxDone, lifePc, connCloses, busPanic, watchPc,
                   watchCtx, ownCtxDone, matchReg, chReg, chCloses, dispPc,
                   handling>>
    /\ UNCHANGED <<mergeVars, trackerVars, extVars>>

\* the second goroutine of AddWatch: wg.Wait() returns when the dispatch
\* goroutine has returned, then r.bus.wg.Done()
WaiterDone(w) ==
    /\ ~busPanic
    /\ dispPc[w] = "exited"
    /\ ~released[w]
    /\ released' = [released EXCEPT ![w] = TRUE]
    /\ busWg' = busWg - 1
    /\ UNCHANGED <<bus, busCtxDone, lifePc, connCloses, busPanic, watchPc,
                   watchCtx, ownCtxDone, matchReg, chReg, chCloses, dispPc,
                   handling>>
    /\ UNCHANGED <<mergeVars, trackerVars, extVars>>

BusNext ==
    \/ NewBusOk
    \/ NewBusFail
    \/ BusCancel
    \/ \E w \in Watches : WatchCancel(w)
    \/ LifeCtxDone
    \/ LifeWgWait
    \/ LifeClose
    \/ \E w \in Watches : AddWatchNoBus(w)
    \/ \E w \in Watches, c \in {"bus", "own"} : AddWatchMatch(w, c)
    \/ \E w \in Watches : AddWatchMatchFail(w)
    \/ \E w \in Watches : AddWatchStart(w)
    \/ \E w \in Watches : RemoveWatch(w)
    \/ \E w, m \in Watches : Deliver(w, m)
    \/ \E w \in Watches : DispatchRecvClosed(w)
    \/ \E w \in Watches : HandlerReturn(w)
    \/ \E w \in Watches : DispatchCtxDone(w)
    \/ \E w \in Watches : WaiterDone(w)

BusInit ==
    /\ InitMergeWith(0)
    /\ InitBus
    /\ InitTracker
    /\ InitExt

BusSpec == BusInit /\ [][BusNext]_vars

\* every goroutine of the bus layer that can take a step eventually takes one,
\* a handler returns, and a select whose ctx.Done() case is ready again and
\* again eventually takes it (Go's select chooses among the ready cases at
\* random); nothing is assumed of the callers or of the arrival of signals
BusFairness ==
    /\ WF_vars(LifeCtxDone \/ LifeWgWait \/ LifeClose)
    /\ \A w \in Watches :
          /\ WF_vars(AddWatchStart(w))
          /\ WF_vars(HandlerReturn(w))
          /\ SF_vars(DispatchCtxDone(w))
          /\ WF_vars(WaiterDone(w))

FairBusSpec == BusInit /\ [][BusNext]_vars /\ BusFairness

(***************************************************************************)
(* Properties of the bus layer.                                            *)
(***************************************************************************)
\* C5 (as claimed): the connection is closed only when no dispatch goroutine
\* of a watch on this bus is running.
C5_CloseAfterWatches ==
    connCloses > 0 => \A w \in Watches : ~DispatchRunning(w)

\* C6 (as claimed): the delivery channel of a watch is closed at most once, and
\* only when its dispatch goroutine has exited.
C6_ChannelClosedOnce ==
    \A w \in Watches :
        /\ ~(dispPc[w] = "panicked")
        /\ chCloses[w] <= 1
        /\ chCloses[w] > 0 => dispPc[w] = "exited"

\* C7 (as claimed): once a watch was torn down because its context was
\* cancelled, its match rules are no longer registered on the connection.
C7_CancelDeregisters ==
    \A w \in Watches :
        (dispPc[w] = "exited" /\ WatchCtxDone(w)) => ~matchReg[w]

\* C8 (as claimed): AddWatch returns without waiting for a signal, and once
\* the context of a started watch is cancelled, its dispatch goroutine
\* eventually has removed and closed its channel and exited, and the wait
\* counter of the bus is released.
C8_CancelTearsDown ==
    /\ [](\A w \in Watches :
             (watchPc[w] = "matched" /\ ~busPanic) => ENABLED AddWatchStart(w))
    /\ \A w \in Watches :
          (watchPc[w] = "returned" /\ WatchCtxDone(w))
             ~> (/\ dispPc[w] = "exited"
                 /\ ~chReg[w]
                 /\ chCloses[w] = 1
                 /\ released[w])

(***************************************************************************)
(* The sensor tracker.  Its source is not among the files modelled here;   *)
(* the registry follows the specification: Update looks the sensor up by   *)
(* its id, replaces the stored value when the id is present and inserts    *)
(* the sensor otherwise; Get reads the stored value; List gives the ids.   *)
(* The registry is a list of entries so that a duplicate insert shows.     *)
(***************************************************************************)
Ids == {"battery", "disk_root"}

Index(reg, id) ==
    IF \E i \in DOMAIN reg : reg[i].id = id
    THEN CHOOSE i \in DOMAIN reg :
            /\ reg[i].id = id
            /\ \A j \in DOMAIN reg : reg[j].id = id => i <= j
    ELSE 0

\* a variant of Update that inserts without looking the id up
UpdateInsert(reg, u) == Append(reg, u)

Update(reg, u) ==
    IF Index(reg, u.id) = 0
    THEN Append(reg, u)
    ELSE [reg EXCEPT ![Index(reg, u.id)] = u]

Found(reg, id) == Index(reg, id) # 0

Get(reg, id) == reg[Index(reg, id)].value

List(reg) == {reg[i].id : i \in DOMAIN reg}

\* SensorTracker.UpdateSensors(ctx, s), called directly
UpdateSensors(u) ==
    /\ Len(applied) < MaxUpdates
    /\ registry' = Update(registry, u)
    /\ applied' = Append(applied, u)
    /\ UNCHANGED inflight
    /\ UNCHANGED <<mergeVars, busVars, extVars>>

TrackerNext ==
    \E id \in Ids, v \in {425, 790, 800} : UpdateSensors(Sensor(id, v))

TrackerInit ==
    /\ InitMergeWith(0)
    /\ InitBus
    /\ InitTracker
    /\ InitExt

TrackerSpec == TrackerInit /\ [][TrackerNext]_vars

\* the position in applied of the last update of id (0: none)
LastOf(id) ==
    IF \E i \in DOMAIN applied : applied[i].id = id
    THEN CHOOSE i \in DOMAIN applied :
            /\ applied[i].id = id
            /\ \A j \in DOMAIN applied : applied[j].id = id => j <= i
    ELSE 0

\* C10: Get(id) is the value of the last update of id, the registry holds one
\* key per id ever updated (a second update of an id adds no key, and no key
\* is removed), and no id occurs twice in the registry.
C10_LastWriteWins ==
    /\ \A id \in Ids :
          IF LastOf(id) = 0
          THEN ~Found(registry, id)
          ELSE /\ Found(registry, id)
               /\ Get(registry, id) = applied[LastOf(id)].value
    /\ Len(registry) = Cardinality({applied[i].id : i \in DOMAIN applied})
    /\ \A i, j \in DOMAIN registry :
          registry[i].id = registry[j].id => i = j

\* C10 witness: an id was updated twice in a row with different values, after
\* another id was inserted.
C10_Witness ==
    /\ Len(applied) >= 3
    /\ applied[1].id # applied[2].id
    /\ applied[2].id = applied[3].id
    /\ applied[2].value # applied[3].value
    /\ Len(registry) = 2

(***************************************************************************)
(* The pipeline of runWorkers: the producers of the scenario feed the      *)
(* merger, whose consumer starts one goroutine per value received, which   *)
(* calls the tracker.                                                      *)
(***************************************************************************)
\* worker p sends the next value of its script on its output channel
ProducerEmit(p) ==
    /\ Len(sent[p]) < Len(Script[p])
    /\ SrcSend(p, Script[p][Len(sent[p]) + 1])

\* worker p closes its output channel, after the context was cancelled
ProducerClose(p) ==
    /\ ctxDone
    /\ SrcClose(p)

\* the body of the consumer's loop: go func(s) { trk.UpdateSensors(ctx, s) }(s)
ConsumerDispatch ==
    /\ consumerPc = "busy"
    /\ consumerPc' = "range"
    /\ inflight' = inflight \cup {Len(received)}
    /\ UNCHANGED <<nSrc, sensorCh, sent, merged, outputPc, held, wg, closerPc,
                   outCloses, sendOnClosed, ctxDone, received>>
    /\ UNCHANGED <<registry, applied>>
    /\ UNCHANGED <<busVars, extVars>>

\* a goroutine started by the consumer calls trk.UpdateSensors(ctx, s)
DispatchUpdate(i) ==
    /\ i \in inflight
    /\ inflight' = inflight \ {i}
    /\ registry' = Update(registry, received[i].val)
    /\ applied' = Append(applied, received[i].val)
    /\ UNCHANGED <<mergeVars, busVars, extVars>>

PipeNext ==
    \/ \E p \in Sources : ProducerEmit(p)
    \/ \E p \in Sources : ProducerClose(p)
    \/ Cancel
    \/ mergeSensorCh
    \/ MergerStep
    \/ ConsumerDispatch
    \/ ConsumerClosed
    \/ \E i \in 1..MaxSend : DispatchUpdate(i)

PipeInit ==
    /\ InitMergeWith(NumProducers)
    /\ InitBus
    /\ InitTracker
    /\ InitExt

PipeSpec == PipeInit /\ [][PipeNext]_vars

\* every value of the scenario was received from the merger and every
\* goroutine started for a value has called the tracker
PipeQuiet ==
    /\ \A p \in Sources : sent[p] = Script[p]
    /\ Len(received) = Len(Script[1]) + Len(Script[2]) + Len(Script[3])
    /\ consumerPc # "busy"
    /\ inflight = {}

\* C9 (as claimed): when the scenario has been processed, List() is
\* {battery, disk_root} and Get(battery) is 79.
C9_ScenarioEndsWith79 ==
    PipeQuiet => /\ List(registry) = {"battery", "disk_root"}
                 /\ Get(registry, "battery") = 790

(***************************************************************************)
(* disk.UsageUpdater: a producer of the merger.  It makes its output       *)
(* channel (source DiskSrc of the merger's model), starts the polling      *)
(* goroutine and the goroutine that closes the channel once the context    *)
(* is cancelled.  helpers.PollSensors is not among the files modelled      *)
(* here; following the specification it calls the updater on a periodic    *)
(* schedule until the context is cancelled.                                *)
(***************************************************************************)
DiskSrc == 1

\* a path is the sequence of its separators and names; an id is a sequence
\* of the same kind
Partitions == << <<"/">>, <<"/", "home">> >>

\* UsedPercent of the partitions, in hundredths of a percent
UsedPercent == <<4251, 6098>>

\* strings.ReplaceAll(s, old, new), for a one-character old
ReplaceAll(s, old, new) ==
    [i \in DOMAIN s |-> IF s[i] = old THEN new ELSE s[i]]

\* diskSensor.ID()
ID(path) ==
    IF path = <<"/">>
    THEN <<"mountpoint", "_", "root">>
    ELSE <<"mountpoint">> \o ReplaceAll(path, "/", "_")

\* newDiskSensor(d): Value = math.Round(d.UsedPercent/0.05) * 0.05
newDiskSensor(i) ==
    Sensor(ID(Partitions[i]), ((UsedPercent[i] * 2 + 5) \div 10) * 5)

\* UsageUpdater(ctx): go helpers.PollSensors(...), go func() { defer
\* close(sensorCh); <-ctx.Done() }(), return sensorCh
UsageUpdater ==
    /\ pollPc = "none"
    /\ pollPc' = "wait"
    /\ diskCloserPc' = "wait"
    /\ UNCHANGED part
    /\ UNCHANGED <<mergeVars, busVars, trackerVars, agentVars, sigVars,
                   reqVars, connVars, workerVars>>

\* PollSensors: the schedule fires and the updater is called
PollTick ==
    /\ pollPc = "wait"
    /\ ~ctxDone
    /\ TotalSent + Len(Partitions) <= MaxSend
    /\ pollPc' = "list"
    /\ UNCHANGED <<part, diskCloserPc>>
    /\ UNCHANGED <<mergeVars, busVars, trackerVars, agentVars, sigVars,
                   reqVars, connVars, workerVars>>

\* PollSensors: the context is cancelled; the polling goroutine returns
PollStop ==
    /\ pollPc = "wait"
    /\ ctxDone
    /\ pollPc' = "exited"
    /\ UNCHANGED <<part, diskCloserPc>>
    /\ UNCHANGED <<mergeVars, busVars, trackerVars, agentVars, sigVars,
                   reqVars, connVars, workerVars>>

\* sendDiskUsageStats: disk.PartitionsWithContext fails; log and return
ListFail ==
    /\ pollPc = "list"
    /\ pollPc' = "wait"
    /\ UNCHANGED <<part, diskCloserPc>>
    /\ UNCHANGED <<mergeVars, busVars, trackerVars, agentVars, sigVars,
                   reqVars, connVars, workerVars>>

\* sendDiskUsageStats: disk.PartitionsWithContext gives the partitions
ListOk ==
    /\ pollPc = "list"
    /\ pollPc' = "usage"
    /\ part' = 1
    /\ UNCHANGED diskCloserPc
    /\ UNCHANGED <<mergeVars, busVars, trackerVars, agentVars, sigVars,
                   reqVars, connVars, workerVars>>

\* a variant of UsageFail in which the error ends the polling goroutine
UsageFailExit ==
    /\ pollPc = "usage"
    /\ pollPc' = "exited"
    /\ part' = 0
    /\ UNCHANGED diskCloserPc
    /\ UNCHANGED <<mergeVars, busVars, trackerVars, agentVars, sigVars,
                   reqVars, connVars, workerVars>>

\* sendDiskUsageStats: disk.UsageWithContext fails for the partition; log
\* and return
UsageFail ==
    /\ pollPc = "usage"
    /\ pollPc' = "wait"
    /\ part' = 0
    /\ UNCHANGED diskCloserPc
    /\ UNCHANGED <<mergeVars, busVars, trackerVars, agentVars, sigVars,
                   reqVars, connVars, workerVars>>

\* sendDiskUsageStats: disk.UsageWithContext gives the usage
UsageOk ==
    /\ pollPc = "usage"
    /\ pollPc' = "send"
    /\ UNCHANGED <<part, diskCloserPc>>
    /\ UNCHANGED <<mergeVars, busVars, trackerVars, agentVars, sigVars,
                   reqVars, connVars, workerVars>>

\* sendDiskUsageStats: sensorCh <- newDiskSensor(usage).  The send waits
\* while the channel is full; a send on a closed channel panics.
DiskSend ==
    /\ pollPc = "send"
    /\ IF sensorCh[DiskSrc].closed
       THEN /\ pollPc' = "panicked"
            /\ UNCHANGED <<part, sensorCh, sent>>
       ELSE /\ Len(sensorCh[DiskSrc].buf) < SrcCap
            /\ sensorCh' = [sensorCh EXCEPT
                               ![DiskSrc].buf = Append(@, newDiskSensor(part))]
            /\ sent' = [sent EXCEPT
                           ![DiskSrc] = Append(@, newDiskSensor(part))]
            /\ IF part < Len(Partitions)
               THEN /\ part' = part + 1
                    /\ pollPc' = "usage"
               ELSE /\ part' = 0
                    /\ pollPc' = "wait"
    /\ UNCHANGED diskCloserPc
    /\ UNCHANGED <<nSrc, merged, outputPc, held, wg, closerPc, outCloses,
                   sendOnClosed, ctxDone, received, consumerPc>>
    /\ UNCHANGED <<busVars, trackerVars, agentVars, sigVars, reqVars, connVars,
                   workerVars>>

\* the closing goroutine: <-ctx.Done(), then the deferred close(sensorCh)
DiskClose ==
    /\ diskCloserPc = "wait"
    /\ ctxDone
    /\ diskCloserPc' = "done"
    /\ sensorCh' = [sensorCh EXCEPT ![DiskSrc].closed = TRUE]
    /\ UNCHANGED <<pollPc, part>>
    /\ UNCHANGED <<nSrc, sent, merged, outputPc, held, wg, closerPc, outCloses,
                   sendOnClosed, ctxDone, received, consumerPc>>
    /\ UNCHANGED <<busVars, trackerVars, agentVars, sigVars, reqVars, connVars,
                   workerVars>>

DiskNext ==
    \/ UsageUpdater
    \/ PollTick
    \/ PollStop
    \/ ListFail
    \/ ListOk
    \/ UsageFail
    \/ UsageOk
    \/ DiskSend
    \/ DiskClose
    \/ Cancel
    \/ mergeSensorCh
    \/ MergerStep
    \/ ConsumerNext
    \/ ConsumerClosed

DiskInit ==
    /\ InitMergeWith(1)
    /\ InitBus
    /\ InitTracker
    /\ InitExt

DiskSpec == DiskInit /\ [][DiskNext]_vars

\* C11 (as claimed): the polling goroutine never sends on the output channel
\* after the closing goroutine closed it (no panic), in any interleaving.
C11_NoSendAfterClose == pollPc # "panicked"

(***************************************************************************)
(* The agent: Run, Register, Stop and handleSignals (agent.go).  The       *)
(* context of Run is the context of the merger's model: cancelFunc()       *)
(* sets ctxDone.  A panic of any goroutine ends the process.               *)
(***************************************************************************)
\* Run(options), up to agent.ui.Run(): regWait.Add(1) and the registration
\* goroutine, cfgWait.Add(1) and the config goroutine, wg.Add(1) and the
\* goroutine that starts the workers, the goroutine that waits for
\* agent.done, handleSignals, the tray icon
Run ==
    /\ mode = "none"
    /\ mode' = "run"
    /\ regPc' = "running"
    /\ cfgPc' = "waitReg"
    /\ workPc' = "waitCfg"
    /\ shutPc' = "waitDone"
    /\ sigPc' = "wait"
    /\ runWg' = 1
    /\ runPc' = "ui"
    /\ UNCHANGED <<doneCloses, agentPanic, ctxSet, workersPc, scriptsPc,
                   notifyPc>>
    /\ UNCHANGED <<mergeVars, busVars, trackerVars, diskVars, sigVars,
                   reqVars, connVars, workerVars>>

\* Register(options, server, token), up to agent.ui.Run(): defer
\* close(agent.done), the registration goroutine, the goroutine that waits
\* for agent.done, handleSignals, the tray icon
Register ==
    /\ mode = "none"
    /\ mode' = "register"
    /\ regPc' = "running"
    /\ shutPc' = "waitDone"
    /\ sigPc' = "wait"
    /\ runPc' = "ui"
    /\ UNCHANGED <<cfgPc, workPc, doneCloses, agentPanic, ctxSet, runWg,
                   workersPc, scriptsPc, notifyPc>>
    /\ UNCHANGED <<mergeVars, busVars, trackerVars, diskVars, sigVars,
                   reqVars, connVars, workerVars>>

\* close(agent.done): closing a closed channel panics
CloseDone ==
    /\ doneCloses' = doneCloses + 1
    /\ agentPanic' = (doneCloses > 0)

\* the Quit item of the tray menu: Agent.Stop() closes agent.done, then the
\* application quits (the item has IsQuit set) and agent.ui.Run() returns
Stop ==
    /\ ~agentPanic
    /\ runPc = "ui"
    /\ CloseDone
    /\ runPc' = "wait"
    /\ UNCHANGED <<mode, regPc, cfgPc, workPc, shutPc, sigPc, ctxSet,
                   runWg, workersPc, scriptsPc, notifyPc>>
    /\ UNCHANGED <<mergeVars, busVars, trackerVars, diskVars, sigVars,
                   reqVars, connVars, workerVars>>

\* the goroutine of handleSignals: os.Interrupt or SIGTERM arrives on c, the
\* goroutine returns and its deferred close(agent.done) runs
SignalReceived ==
    /\ ~agentPanic
    /\ sigPc = "wait"
    /\ sigPc' = "exited"
    /\ CloseDone
    /\ UNCHANGED <<mode, runPc, regPc, cfgPc, workPc, shutPc, ctxSet, runWg,
                   workersPc, scriptsPc, notifyPc>>
    /\ UNCHANGED <<mergeVars, busVars, trackerVars, diskVars, sigVars,
                   reqVars, connVars, workerVars>>

\* agent.registrationProcess returns; the deferred regWait.Done() runs
RegistrationDone ==
    /\ ~agentPanic
    /\ regPc = "running"
    /\ regPc' = "done"
    /\ UNCHANGED <<mode, runPc, cfgPc, workPc, shutPc, sigPc, doneCloses,
                   agentPanic, ctxSet, runWg, workersPc, scriptsPc, notifyPc>>
    /\ UNCHANGED <<mergeVars, busVars, trackerVars, diskVars, sigVars,
                   reqVars, connVars, workerVars>>

\* the config goroutine of Run: regWait.Wait(), ValidateConfig, SetConfig,
\* ctx, cancelFunc = agent.setupContext(), cfgWait.Done()
ConfigValidated ==
    /\ ~agentPanic
    /\ cfgPc = "waitReg"
    /\ regPc = "done"
    /\ cfgPc' = "done"
    /\ ctxSet' = TRUE
    /\ UNCHANGED <<mode, runPc, regPc, workPc, shutPc, sigPc, doneCloses,
                   agentPanic, runWg, workersPc, scriptsPc, notifyPc>>
    /\ UNCHANGED <<mergeVars, busVars, trackerVars, diskVars, sigVars,
                   reqVars, connVars, workerVars>>

\* a variant of WorkStart that does not wait for the config goroutine
WorkStartEarly ==
    /\ ~agentPanic
    /\ workPc = "waitCfg"
    /\ workPc' = "done"
    /\ runWg' = runWg + 3 - 1
    /\ workersPc' = "running"
    /\ scriptsPc' = "start"
    /\ notifyPc' = "running"
    /\ UNCHANGED <<mode, runPc, regPc, cfgPc, shutPc, sigPc, doneCloses,
                   agentPanic, ctxSet>>
    /\ UNCHANGED <<mergeVars, busVars, trackerVars, diskVars, sigVars,
                   reqVars, connVars, workerVars>>

\* the goroutine of Run that starts the workers: cfgWait.Wait(),
\* NewSensorTracker, three times wg.Add(1) and a goroutine, then its deferred
\* wg.Done()
WorkStart ==
    /\ ~agentPanic
    /\ workPc = "waitCfg"
    /\ cfgPc = "done"
    /\ workPc' = "done"
    /\ runWg' = runWg + 3 - 1
    /\ workersPc' = "running"
    /\ scriptsPc' = "start"
    /\ notifyPc' = "running"
    /\ UNCHANGED <<mode, runPc, regPc, cfgPc, shutPc, sigPc, doneCloses,
                   agentPanic, ctxSet>>
    /\ UNCHANGED <<mergeVars, busVars, trackerVars, diskVars, sigVars,
                   reqVars, connVars, workerVars>>

\* the goroutine that waits for agent.done: in Run it calls cancelFunc(),
\* which panics when cancelFunc is not yet assigned; in Register it only logs
Shutdown ==
    /\ ~agentPanic
    /\ shutPc = "waitDone"
    /\ doneCloses > 0
    /\ shutPc' = "done"
    /\ IF mode = "run"
       THEN IF ctxSet
            THEN ctxDone' = TRUE /\ UNCHANGED agentPanic
            ELSE agentPanic' = TRUE /\ UNCHANGED ctxDone
       ELSE UNCHANGED <<agentPanic, ctxDone>>
    /\ UNCHANGED <<mode, runPc, regPc, cfgPc, workPc, sigPc, doneCloses,
                   ctxSet, runWg, workersPc, scriptsPc, notifyPc>>
    /\ UNCHANGED <<nSrc, sensorCh, sent, merged, outputPc, held, wg, closerPc,
                   outCloses, sendOnClosed, received, consumerPc>>
    /\ UNCHANGED <<busVars, trackerVars, diskVars, sigVars, reqVars, connVars,
                   workerVars>>

\* agent.ui.Run() returns (at once without a windowing environment, else
\* when the application quits)
UiReturn ==
    /\ ~agentPanic
    /\ runPc = "ui"
    /\ runPc' = "wait"
    /\ UNCHANGED <<mode, regPc, cfgPc, workPc, shutPc, sigPc, doneCloses,
                   agentPanic, ctxSet, runWg, workersPc, scriptsPc, notifyPc>>
    /\ UNCHANGED <<mergeVars, busVars, trackerVars, diskVars, sigVars,
                   reqVars, connVars, workerVars>>

\* Run: wg.Wait() returns once the counter is zero; Run returns
RunReturn ==
    /\ ~agentPanic
    /\ mode = "run"
    /\ runPc = "wait"
    /\ runWg = 0
    /\ runPc' = "returned"
    /\ UNCHANGED <<mode, regPc, cfgPc, workPc, shutPc, sigPc, doneCloses,
                   agentPanic, ctxSet, runWg, workersPc, scriptsPc, notifyPc>>
    /\ UNCHANGED <<mergeVars, busVars, trackerVars, diskVars, sigVars,
                   reqVars, connVars, workerVars>>

\* Register: regWait.Wait() returns, Register returns and its deferred
\* close(agent.done) runs
RegisterReturn ==
    /\ ~agentPanic
    /\ mode = "register"
    /\ runPc = "wait"
    /\ regPc = "done"
    /\ runPc' = "returned"
    /\ CloseDone
    /\ UNCHANGED <<mode, regPc, cfgPc, workPc, shutPc, sigPc, ctxSet, runWg,
                   workersPc, scriptsPc, notifyPc>>
    /\ UNCHANGED <<mergeVars, busVars, trackerVars, diskVars, sigVars,
                   reqVars, connVars, workerVars>>

\* agent.startWorkers returns: every worker function has returned, which the
\* workers do once their context is cancelled; the deferred wg.Done() runs
WorkersReturn ==
    /\ ~agentPanic
    /\ workersPc = "running"
    /\ ctxDone
    /\ workersPc' = "returned"
    /\ runWg' = runWg - 1
    /\ UNCHANGED <<mode, runPc, regPc, cfgPc, workPc, shutPc, sigPc,
                   doneCloses, agentPanic, ctxSet, scriptsPc, notifyPc>>
    /\ UNCHANGED <<mergeVars, busVars, trackerVars, diskVars, sigVars,
                   reqVars, connVars, workerVars>>

\* agent.runNotificationsWorker returns: both its goroutines have seen
\* ctx.Done(); the deferred wg.Done() runs
NotifyReturn ==
    /\ ~agentPanic
    /\ notifyPc = "running"
    /\ ctxDone
    /\ notifyPc' = "returned"
    /\ runWg' = runWg - 1
    /\ UNCHANGED <<mode, runPc, regPc, cfgPc, workPc, shutPc, sigPc,
                   doneCloses, agentPanic, ctxSet, workersPc, scriptsPc>>
    /\ UNCHANGED <<mergeVars, busVars, trackerVars, diskVars, sigVars,
                   reqVars, connVars, workerVars>>

\* agent.runScripts: the script path or the scripts cannot be found; log and
\* return; the deferred wg.Done() runs
ScriptsNone ==
    /\ ~agentPanic
    /\ scriptsPc = "start"
    /\ scriptsPc' = "noscripts"
    /\ runWg' = runWg - 1
    /\ UNCHANGED <<mode, runPc, regPc, cfgPc, workPc, shutPc, sigPc,
                   doneCloses, agentPanic, ctxSet, workersPc, notifyPc>>
    /\ UNCHANGED <<mergeVars, busVars, trackerVars, diskVars, sigVars,
                   reqVars, connVars, workerVars>>

\* agent.runScripts: the scripts are scheduled, c.Start(), the goroutine that
\* consumes the merged outputs is started; runScripts waits for ctx.Done()
ScriptsStart ==
    /\ ~agentPanic
    /\ scriptsPc = "start"
    /\ scriptsPc' = "waitCtx"
    /\ UNCHANGED <<mode, runPc, regPc, cfgPc, workPc, shutPc, sigPc,
                   doneCloses, agentPanic, ctxSet, runWg, workersPc, notifyPc>>
    /\ UNCHANGED <<mergeVars, busVars, trackerVars, diskVars, sigVars,
                   reqVars, connVars, workerVars>>

\* agent.runScripts: <-ctx.Done(), c.Stop(), <-cronCtx.Done(); runScripts
\* returns; the deferred wg.Done() runs
ScriptsStop ==
    /\ ~agentPanic
    /\ scriptsPc = "waitCtx"
    /\ ctxDone
    /\ scriptsPc' = "returned"
    /\ runWg' = runWg - 1
    /\ UNCHANGED <<mode, runPc, regPc, cfgPc, workPc, shutPc, sigPc,
                   doneCloses, agentPanic, ctxSet, workersPc, notifyPc>>
    /\ UNCHANGED <<mergeVars, busVars, trackerVars, diskVars, sigVars,
                   reqVars, connVars, workerVars>>

\* the consuming goroutine of runScripts exists
ConsumerStarted == scriptsPc \in {"waitCtx", "returned"}

\* the consuming goroutine of runScripts calls mergeSensorCh(ctx, outCh...)
\* and ranges over its result
ConsumerStart ==
    /\ ~agentPanic
    /\ ConsumerStarted
    /\ mergeSensorCh

\* the body of the consumer's loop in agent.runScripts:
\* agent.sensors.UpdateSensors(ctx, s), called in the loop itself
ConsumerUpdate ==
    /\ ~agentPanic
    /\ consumerPc = "busy"
    /\ consumerPc' = "range"
    /\ registry' = Update(registry, received[Len(received)].val)
    /\ applied' = Append(applied, received[Len(received)].val)
    /\ UNCHANGED inflight
    /\ UNCHANGED <<nSrc, sensorCh, sent, merged, outputPc, held, wg, closerPc,
                   outCloses, sendOnClosed, ctxDone, received>>
    /\ UNCHANGED <<busVars, extVars>>

\* a scheduled script runs and sends a sensor on its Output channel
ScriptEmit(s, v) ==
    /\ ~agentPanic
    /\ scriptsPc = "waitCtx"
    /\ SrcSend(s, v)

AgentNext ==
    \/ Run
    \/ Register
    \/ Stop
    \/ SignalReceived
    \/ RegistrationDone
    \/ ConfigValidated
    \/ WorkStart
    \/ Shutdown
    \/ UiReturn
    \/ RunReturn
    \/ RegisterReturn
    \/ WorkersReturn
    \/ NotifyReturn
    \/ ScriptsNone
    \/ ScriptsStart
    \/ ScriptsStop
    \/ ConsumerStart
    \/ ConsumerUpdate
    \/ ConsumerClosed
    \/ \E s \in Sources, v \in Values : ScriptEmit(s, v)
    \/ \E s \in Sources : ProducerClose(s)
    \/ MergerStep

\* one scheduled script, whose Output channel is the source of the merger
AgentInit ==
    /\ InitMergeWith(1)
    /\ InitBus
    /\ InitTracker
    /\ InitExt

AgentSpec == AgentInit /\ [][AgentNext]_vars

\* C12 (as claimed): agent.done is closed at most once, and no close of it
\* panics, whatever the order of Stop, a termination signal and the return
\* of Register.
C12_DoneClosedOnce == doneCloses <= 1

\* C13 (as claimed): when Run has returned after its context was cancelled,
\* the goroutines of the workers, of the script sensors and of the
\* notifications have returned, the goroutine that consumes the merged
\* script outputs has exited and no goroutine dispatching a sensor update
\* is left.
C13_QuiescentAtReturn ==
    (mode = "run" /\ runPc = "returned" /\ ctxDone /\ ~agentPanic)
       => /\ workersPc = "returned"
          /\ scriptsPc \in {"returned", "noscripts"}
          /\ notifyPc = "returned"
          /\ ConsumerStarted => consumerPc = "done"
          /\ inflight = {}

(***************************************************************************)
(* The dispatch loop of a watch, with a log of what it receives and of     *)
(* the calls of its handler.  The k-th signal a loop receives is named k.  *)
(***************************************************************************)
\* the largest number of signals delivered to one watch
MaxSignals == 2

\* a variant of DeliverLog that calls the handler in a goroutine of its own
\* (go r.eventHandler(signal)) and selects again at once
DeliverLogAsync(w, m) ==
    /\ ~busPanic
    /\ bus = "open"
    /\ matchReg[m]
    /\ chReg[w]
    /\ dispPc[w] = "select"
    /\ nDelivered[w] < MaxSignals
    /\ nDelivered' = [nDelivered EXCEPT ![w] = @ + 1]
    /\ \E i \in 0..Len(handled[w]) :
          handled' = [handled EXCEPT
                         ![w] = SubSeq(@, 1, i) \o <<nDelivered[w] + 1>>
                                \o SubSeq(@, i + 1, Len(@))]
    /\ UNCHANGED nReturned
    /\ UNCHANGED <<busVars, mergeVars, trackerVars, diskVars, agentVars,
                   reqVars, connVars, workerVars>>

\* case signal := <-signalCh: r.eventHandler(signal): the loop receives its
\* next signal and calls the handler with it, in the loop itself
DeliverLog(w, m) ==
    /\ nDelivered[w] < MaxSignals
    /\ Receive(w, m)
    /\ nDelivered' = [nDelivered EXCEPT ![w] = @ + 1]
    /\ handled' = [handled EXCEPT ![w] = Append(@, nDelivered[w] + 1)]
    /\ UNCHANGED nReturned

\* r.eventHandler(signal) returns
HandlerReturnLog(w) ==
    /\ Returned(w)
    /\ nReturned' = [nReturned EXCEPT ![w] = @ + 1]
    /\ UNCHANGED <<nDelivered, handled>>

DispatchNext ==
    \/ NewBusOk
    \/ \E w \in Watches : WatchCancel(w)
    \/ \E w \in Watches : AddWatchMatch(w, "own")
    \/ \E w \in Watches : AddWatchStart(w)
    \/ \E w, m \in Watches : DeliverLog(w, m)
    \/ \E w \in Watches : HandlerReturnLog(w)
    \/ \E w \in Watches : DispatchCtxDone(w)
    \/ \E w \in Watches : WaiterDone(w)

DispatchSpec == BusInit /\ [][DispatchNext]_vars

\* C14: for one watch at most one call of the handler is in progress, the
\* loop is at its select (ready to take the next signal) only when no call
\* of the handler is in progress, and the handler was called once with every
\* signal received, in the order of their delivery.
C14_SynchronousDispatch ==
    \A w \in Watches :
        /\ Len(handled[w]) - nReturned[w] \in {0, 1}
        /\ dispPc[w] = "select" => Len(handled[w]) = nReturned[w]
        /\ dispPc[w] = "handling" <=> Len(handled[w]) = nReturned[w] + 1
        /\ handled[w] = [k \in 1..nDelivered[w] |-> k]

\* C14 witness: a watch received a second signal after the handler returned
\* from the first, and its handler runs on the second.
C14_Witness ==
    \E w \in Watches :
        /\ nDelivered[w] = 2
        /\ nReturned[w] = 1
        /\ dispPc[w] = "handling"
        /\ handled[w] = <<1, 2>>

\* C15 (as claimed): once RemoveWatch succeeded for a started watch (its match
\* rules are off the open connection), its dispatch goroutine eventually has
\* exited and its channel is removed from the connection and closed.
C15_RemoveWatchTearsDown ==
    \A w \in Watches :
        (watchPc[w] = "returned" /\ ~matchReg[w] /\ bus = "open")
           ~> (dispPc[w] = "exited" /\ ~chReg[w] /\ chCloses[w] > 0)

(***************************************************************************)
(* The operations of a busRequest (GetProp, SetProp, GetData, Call and,    *)
(* without a bus, AddWatch and RemoveWatch) and the typed extractions of   *)
(* dbusData.  The transport (godbus) answers a call with an error or with  *)
(* the body of the reply, whichever the remote side decides.               *)
(***************************************************************************)
\* the largest number of operations called on the request
MaxCalls == 2

\* errors.New("no bus connection")
NoBus == "no bus connection"

\* the values SetProp is called with
PropValues == {MakeVariant(Str("on")), MakeVariant(Str("off"))}

\* the bodies of the replies to the method GetData calls: no value, or one
\* value of some type (a dict of variants arrives as a map[string]any when
\* it is stored into an interface value)
Bodies ==
    { <<>>,
      <<AnyMap([k \in {"Name"} |-> Str("eth0")])>>,
      <<StringMap([k \in {"Name"} |-> "eth0"])>>,
      <<StringList(<<"a", "b">>)>>,
      <<ObjectPathList(<<"/org/a">>)>>,
      <<ObjectPath("/org/a")>>,
      <<Str("x")>> }

\* the request exists: with a bus (connected), or without one
HasRequest == bus \in {"nil", "open", "closed"}

\* a variant of GetProp that calls the transport again when the call failed
GetPropRetry ==
    /\ HasRequest
    /\ ret.seq < MaxCalls
    /\ IF bus = "nil"
       THEN /\ ret' = Returns(ret.seq + 1, "GetProp", NoBus,
                              MakeVariant(Str("")))
            /\ UNCHANGED <<calls, reply>>
       ELSE \E e \in {"nil", "remote"} :
               /\ bus = "closed" => e = "remote"
               /\ calls' = IF e = "nil"
                           THEN Append(calls, "GetProperty")
                           ELSE calls \o <<"GetProperty", "GetProperty">>
               /\ reply' = Reply(e, IF e = "nil" THEN <<remote>> ELSE <<>>)
               /\ ret' = Returns(ret.seq + 1, "GetProp", e,
                                 IF e = "nil" THEN remote
                                 ELSE MakeVariant(Str("")))
    /\ prev' = ret
    /\ UNCHANGED <<remote, data, out>>
    /\ UNCHANGED <<mergeVars, busVars, trackerVars, diskVars, agentVars,
                   sigVars, connVars, workerVars>>

\* busRequest.GetProp(prop)
GetProp ==
    /\ HasRequest
    /\ ret.seq < MaxCalls
    /\ IF bus = "nil"
       THEN /\ ret' = Returns(ret.seq + 1, "GetProp", NoBus,
                              MakeVariant(Str("")))
            /\ UNCHANGED <<calls, reply>>
       ELSE \E e \in {"nil", "remote"} :
               /\ bus = "closed" => e = "remote"
               /\ calls' = Append(calls, "GetProperty")
               /\ reply' = Reply(e, IF e = "nil" THEN <<remote>> ELSE <<>>)
               /\ ret' = Returns(ret.seq + 1, "GetProp", e,
                                 IF e = "nil" THEN reply'.body[1]
                                 ELSE MakeVariant(Str("")))
    /\ prev' = ret
    /\ UNCHANGED <<remote, data, out>>
    /\ UNCHANGED <<mergeVars, busVars, trackerVars, diskVars, agentVars,
                   sigVars, connVars, workerVars>>

\* a variant of SetProp without the test of r.bus
SetPropUnchecked(value) ==
    /\ HasRequest
    /\ ret.seq < MaxCalls
    /\ \E e \in {"nil", "remote"} :
          /\ calls' = Append(calls, "SetProperty")
          /\ reply' = Reply(e, <<>>)
          /\ remote' = IF e = "nil" THEN value ELSE remote
          /\ ret' = Returns(ret.seq + 1, "SetProp", e, GoNil)
    /\ prev' = ret
    /\ UNCHANGED <<data, out>>
    /\ UNCHANGED <<mergeVars, busVars, trackerVars, diskVars, agentVars,
                   sigVars, connVars, workerVars>>

\* a variant of SetProp that wraps the variant it is given in a variant
SetPropWrapped(value) ==
    /\ HasRequest
    /\ ret.seq < MaxCalls
    /\ IF bus # "nil"
       THEN \E e \in {"nil", "remote"} :
               /\ bus = "closed" => e = "remote"
               /\ calls' = Append(calls, "SetProperty")
               /\ reply' = Reply(e, <<>>)
               /\ remote' = IF e = "nil" THEN MakeVariant(value) ELSE remote
               /\ ret' = Returns(ret.seq + 1, "SetProp", e, GoNil)
       ELSE /\ ret' = Returns(ret.seq + 1, "SetProp", NoBus, GoNil)
            /\ UNCHANGED <<calls, reply, remote>>
    /\ prev' = ret
    /\ UNCHANGED <<data, out>>
    /\ UNCHANGED <<mergeVars, busVars, trackerVars, diskVars, agentVars,
                   sigVars, connVars, workerVars>>

\* busRequest.SetProp(prop, value)
SetProp(value) ==
    /\ HasRequest
    /\ ret.seq < MaxCalls
    /\ IF bus # "nil"
       THEN \E e \in {"nil", "remote"} :
               /\ bus = "closed" => e = "remote"
               /\ calls' = Append(calls, "SetProperty")
               /\ reply' = Reply(e, <<>>)
               /\ remote' = IF e = "nil" THEN value ELSE remote
               /\ ret' = Returns(ret.seq + 1, "SetProp", e, GoNil)
       ELSE /\ ret' = Returns(ret.seq + 1, "SetProp", NoBus, GoNil)
            /\ UNCHANGED <<calls, reply, remote>>
    /\ prev' = ret
    /\ UNCHANGED <<data, out>>
    /\ UNCHANGED <<mergeVars, busVars, trackerVars, diskVars, agentVars,
                   sigVars, connVars, workerVars>>

\* busRequest.Call(method, args...)
Call ==
    /\ HasRequest
    /\ ret.seq < MaxCalls
    /\ IF bus = "nil"
       THEN /\ ret' = Returns(ret.seq + 1, "Call", NoBus, GoNil)
            /\ UNCHANGED <<calls, reply>>
       ELSE \E e \in {"nil", "remote"} :
               /\ bus = "closed" => e = "remote"
               /\ calls' = Append(calls, "Call")
               /\ reply' = Reply(e, <<>>)
               /\ ret' = Returns(ret.seq + 1, "Call", e, GoNil)
    /\ prev' = ret
    /\ UNCHANGED <<remote, data, out>>
    /\ UNCHANGED <<mergeVars, busVars, trackerVars, diskVars, agentVars,
                   sigVars, connVars, workerVars>>

\* busRequest.GetData(method, args...): without a bus it returns nil; else
\* d := new(dbusData), err = obj.Call(...).Store(&d.data), the error is
\* logged, return d.  Store fails when the call failed and when the body
\* does not hold exactly one value; d.data then stays nil.
GetData ==
    /\ HasRequest
    /\ ret.seq < MaxCalls
    /\ IF bus = "nil"
       THEN /\ data' = NilData
            /\ UNCHANGED <<calls, reply>>
       ELSE \E r \in {Reply("remote", <<>>)}
                     \cup {Reply("nil", b) : b \in Bodies} :
               /\ bus = "closed" => r.err = "remote"
               /\ calls' = Append(calls, "Call")
               /\ reply' = r
               /\ data' = IF r.err = "nil" /\ Len(r.body) = 1
                          THEN DataOf(r.body[1])
                          ELSE DataOf(GoNil)
    /\ ret' = Returns(ret.seq + 1, "GetData", "nil", GoNil)
    /\ prev' = ret
    /\ UNCHANGED <<remote, out>>
    /\ UNCHANGED <<mergeVars, busVars, trackerVars, diskVars, agentVars,
                   sigVars, connVars, workerVars>>

\* busRequest.RemoveWatch(ctx) on a request without a bus
RemoveWatchNoBus ==
    /\ bus = "nil"
    /\ ret.seq < MaxCalls
    /\ ret' = Returns(ret.seq + 1, "RemoveWatch", NoBus, GoNil)
    /\ prev' = ret
    /\ UNCHANGED <<remote, calls, reply, data, out>>
    /\ UNCHANGED <<mergeVars, busVars, trackerVars, diskVars, agentVars,
                   sigVars, connVars, workerVars>>

\* (*dbusData).AsVariantMap
AsVariantMap(d) ==
    IF d.isnil THEN Zero("map[string]Variant")
    ELSE IF d.data.kind = "map[string]any"
         THEN VariantMap([k \in DOMAIN d.data.val |->
                             MakeVariant(d.data.val[k])])
         ELSE VariantMap(<<>>)

\* (*dbusData).AsStringMap
AsStringMap(d) ==
    IF d.isnil THEN Zero("map[string]string")
    ELSE IF d.data.kind = "map[string]string"
         THEN d.data
         ELSE StringMap(<<>>)

\* (*dbusData).AsObjectPathList
AsObjectPathList(d) ==
    IF d.isnil THEN Zero("[]ObjectPath")
    ELSE IF d.data.kind = "[]ObjectPath"
         THEN d.data
         ELSE Zero("[]ObjectPath")

\* (*dbusData).AsStringList
AsStringList(d) ==
    IF d.isnil THEN Zero("[]string")
    ELSE IF d.data.kind = "[]string"
         THEN d.data
         ELSE Zero("[]string")

\* a variant of AsObjectPath whose type assertion is not checked
AsObjectPathUnchecked(d) == d.data

\* (*dbusData).AsObjectPath
AsObjectPath(d) ==
    IF d.isnil THEN ObjectPath("")
    ELSE IF d.data.kind = "ObjectPath"
         THEN d.data
         ELSE Zero("ObjectPath")

\* (*dbusData).AsRawInterface
AsRawInterface(d) == IF ~d.isnil THEN d.data ELSE GoNil

\* VariantToValue[S](variant): variant.Store(&value) succeeds when the
\* variant holds a value of type S
VariantToValue(S, variant) ==
    IF variant.val.kind = S THEN variant.val ELSE Zero(S)

\* the typed extractions of dbusData and the type each one returns
Extractors ==
    {"AsVariantMap", "AsStringMap", "AsObjectPathList", "AsStringList",
     "AsObjectPath"}

Target(f) ==
    CASE f = "AsVariantMap" -> "map[string]Variant"
      [] f = "AsStringMap" -> "map[string]string"
      [] f = "AsObjectPathList" -> "[]ObjectPath"
      [] f = "AsStringList" -> "[]string"
      [] f = "AsObjectPath" -> "ObjectPath"

\* the caller extracts the result of its last GetData
Extract(f) ==
    /\ ret.op = "GetData"
    /\ out' = [f |-> f, to |-> Target(f), arg |-> data,
               val |-> CASE f = "AsVariantMap" -> AsVariantMap(data)
                         [] f = "AsStringMap" -> AsStringMap(data)
                         [] f = "AsObjectPathList" -> AsObjectPathList(data)
                         [] f = "AsStringList" -> AsStringList(data)
                         [] f = "AsObjectPath" -> AsObjectPath(data)]
    /\ UNCHANGED <<remote, calls, reply, ret, data, prev>>
    /\ UNCHANGED <<mergeVars, busVars, trackerVars, diskVars, agentVars,
                   sigVars, connVars, workerVars>>

\* the caller converts the variant of its last GetProp to the type S
Convert(S) ==
    /\ ret.op = "GetProp"
    /\ out' = [f |-> "VariantToValue", to |-> S, arg |-> ret.val,
               val |-> VariantToValue(S, ret.val)]
    /\ UNCHANGED <<remote, calls, reply, ret, data, prev>>
    /\ UNCHANGED <<mergeVars, busVars, trackerVars, diskVars, agentVars,
                   sigVars, connVars, workerVars>>

ReqNext ==
    \/ NewBusOk
    \/ NewBusFail
    \/ GetProp
    \/ \E v \in PropValues : SetProp(v)
    \/ Call
    \/ GetData
    \/ \E w \in Watches : AddWatchNoBus(w)
    \/ RemoveWatchNoBus
    \/ \E f \in Extractors : Extract(f)
    \/ \E S \in {"string", "[]string", "ObjectPath"} : Convert(S)

ReqInit ==
    /\ InitMergeWith(0)
    /\ InitBus
    /\ InitTracker
    /\ InitExt

ReqSpec == ReqInit /\ [][ReqNext]_vars

\* C16: on a request without a bus, GetProp, SetProp, Call, AddWatch and
\* RemoveWatch return the no-connection error; no call was made on a
\* connection, no goroutine runs, nothing is registered and the remote
\* property is as it was.
C16_NoConnection ==
    bus = "nil" =>
       /\ ret.op \in {"GetProp", "SetProp", "Call", "RemoveWatch"}
             => ret.err = NoBus
       /\ \A w \in Watches :
             /\ watchPc[w] \in {"idle", "noconn"}
             /\ dispPc[w] = "none"
             /\ ~matchReg[w] /\ ~chReg[w] /\ ~released[w]
       /\ calls = <<>>
       /\ busWg = 0
       /\ lifePc = "none"
       /\ remote = MakeVariant(Str("on"))

\* C16 witness: on a request without a bus, AddWatch returned its error for
\* two watches and MaxCalls other operations returned theirs, the last of
\* them SetProp.
C16_Witness ==
    /\ bus = "nil"
    /\ \A w \in Watches : watchPc[w] = "noconn"
    /\ ret = Returns(MaxCalls, "SetProp", NoBus, GoNil)

\* C17 (as claimed): when the remote call of GetData fails, GetData gives the
\* error to its caller.
C17_GetDataSurfacesError ==
    (ret.op = "GetData" /\ bus = "open" /\ reply.err = "remote")
       => ret.err = "remote"

\* C18: on a request with a bus every operation makes one call on the
\* connection; GetProp, SetProp and Call return the error the transport
\* gave; GetProp returns the variant of the reply when the call succeeded.
C18_OneCallNoRetry ==
    bus = "open" =>
       /\ Len(calls) = ret.seq
       /\ ret.op \in {"GetProp", "SetProp", "Call"} => ret.err = reply.err
       /\ (ret.op = "GetProp" /\ reply.err = "nil")
             => ret.val = reply.body[1]
       /\ ret.op = "GetProp" => calls[Len(calls)] = "GetProperty"
       /\ ret.op = "SetProp" => calls[Len(calls)] = "SetProperty"
       /\ ret.op = "Call" => calls[Len(calls)] = "Call"

\* C18 witness: a GetProp that failed was followed by a GetProp that
\* succeeded, after a SetProp changed the property.
C18_Witness ==
    /\ bus = "open"
    /\ Len(calls) = 2
    /\ ret.op = "GetProp"
    /\ ret.err = "nil"
    /\ ret.val = MakeVariant(Str("on"))

\* the stored value has the shape the extraction f reads (AsVariantMap reads
\* a map[string]any and wraps its values in variants)
HasShape(d, f) ==
    /\ ~d.isnil
    /\ d.data.kind = (IF f = "AsVariantMap" THEN "map[string]any"
                      ELSE Target(f))

\* v is the empty value of the type kind
IsEmptyOf(v, kind) == v.kind = kind /\ v.val = Zero(kind).val

Offered == Sensor("battery", 800)

\* a producer sends on its output channel (as SrcSend, without the log)
SrcOffer(s) ==
    /\ ~sensorCh[s].closed
    /\ Len(sensorCh[s].buf) < SrcCap
    /\ sensorCh' = [sensorCh EXCEPT ![s].buf = Append(@, Offered)]
    /\ UNCHANGED <<nSrc, sent, merged, outputPc, held, wg, closerPc, outCloses,
                   sendOnClosed, ctxDone, received, consumerPc>>
    /\ UNCHANGED <<busVars, trackerVars, extVars>>

\* the loop body of the consumer is done with the value (as ConsumerNext);
\* only the value in the loop body is kept
ConsumerDrain ==
    /\ consumerPc = "busy"
    /\ consumerPc' = "range"
    /\ received' = <<>>
    /\ UNCHANGED <<nSrc, sensorCh, sent, merged, outputPc, held, wg, closerPc,
                   outCloses, sendOnClosed, ctxDone>>
    /\ UNCHANGED <<busVars, trackerVars, extVars>>

\* the sources stay open: the producers offer for as long as the context is
\* not cancelled
StarveNext ==
    \/ \E s \in Sources : SrcOffer(s)
    \/ Cancel
    \/ mergeSensorCh
    \/ \E s \in Sources : OutputRecv(s)
    \/ \E s \in Sources : OutputSend(s)
    \/ \E s \in Sources : OutputCtxDone(s)
    \/ CloserWait
    \/ CloserClose
    \/ ConsumerDrain
    \/ ConsumerClosed

StarveInit ==
    /\ InitMergeWith(MaxSources)
    /\ InitBus
    /\ InitTracker
    /\ InitExt

\* the forwarding goroutines are scheduled fairly; a goroutine blocked in
\* the send on out waits in the channel's queue of senders, which the
\* receives of the consumer serve first come first served, so a sender that
\* is ready whenever the consumer receives is eventually served (strong
\* fairness of the send); the consumer keeps receiving
StarveFairness ==
    /\ WF_vars(mergeSensorCh)
    /\ \A s \in AllSources :
          /\ WF_vars(OutputRecv(s) \/ OutputCtxDone(s))
          /\ SF_vars(OutputSend(s))
    /\ WF_vars(CloserWait \/ CloserClose)
    /\ WF_vars(ConsumerDrain)

StarveSpec == StarveInit /\ [][StarveNext]_vars /\ StarveFairness

\* C20: once the merger runs, a value that a source s has ready in its
\* channel is eventually the value the consumer received from the sink,
\* unless the context is cancelled, whatever the other sources offer.
C20_NoStarvation ==
    \A s \in AllSources :
       (merged /\ s \in Sources /\ sensorCh[s].buf # <<>>)
       ~> (ctxDone
           \/ (consumerPc = "busy" /\ received # <<>>
                  /\ received[Len(received)] = [src |-> s, val |-> Offered]))

\* C20 witness: the consumer has just received a value of the last source
\* while every source has a value waiting in the select and a further value
\* ready in its channel, the context not cancelled.
C20_Witness ==
    /\ merged
    /\ ~ctxDone
    /\ \A s \in Sources :
          /\ outputPc[s] = "select"
          /\ sensorCh[s].buf # <<>>
    /\ consumerPc = "busy"
    /\ received # <<>>
    /\ received[Len(received)].src = nSrc
    /\ nSrc > 1

(***************************************************************************)
(* The merger with a consumer that may stop receiving: the goroutines of   *)
(* the merger are scheduled fairly, nothing is assumed of the consumer.    *)
(***************************************************************************)
AbandonSpec == StarveInit /\ [][StarveNext]_vars /\ MergeFairness

\* C21: an output goroutine whose send on out is pending (the consumer is
\* not receiving) while the context is cancelled returns, unless the
\* consumer comes to receive again.
C21_PendingSendAbandoned ==
    \A s \in AllSources :
       (outputPc[s] = "select" /\ ctxDone /\ consumerPc # "range")
       ~> (outputPc[s] = "returned" \/ consumerPc = "range")

\* C21 witness: the context is cancelled, the consumer is still in its loop
\* body, and an output goroutine has returned with the value it could not
\* send.
C21_Witness ==
    /\ ctxDone
    /\ consumerPc = "busy"
    /\ \E s \in Sources :
          /\ outputPc[s] = "returned"
          /\ held[s] # NoValue

(***************************************************************************)
(* The merger called with any number of sources, none included.            *)
(***************************************************************************)
EdgeInit ==
    /\ \E n \in 0..MaxSources : InitMergeWith(n)
    /\ InitBus
    /\ InitTracker
    /\ InitExt

EdgeSpec == EdgeInit /\ [][StarveNext]_vars /\ MergeFairness

\* C22: the merger called with no source closes out, once, without any
\* value having been received from it, cancelled or not.
C22_ZeroSourcesCloses ==
    /\ [](nSrc = 0 => received = <<>> /\ consumerPc # "busy")
    /\ (merged /\ nSrc = 0) ~> (outCloses = 1 /\ consumerPc \in {"range", "done"})

\* C22 witness: called with no source and never cancelled, the merger has
\* closed out and the consumer's loop has ended with nothing received.
C22_Witness ==
    /\ nSrc = 0
    /\ merged
    /\ ~ctxDone
    /\ outCloses = 1
    /\ consumerPc = "done"
    /\ received = <<>>

(***************************************************************************)
(* The connections of the process: every NewBusRequest2 calls NewBus,      *)
(* which connects to the bus of the scope asked for; NewBusRequest takes   *)
(* the bus from the context.  All calls are given one context.             *)
(***************************************************************************)
\* the bus types: SessionBus, SystemBus
Scopes == {"session", "system"}

\* the largest number of calls of NewBus
MaxBuses == 2

\* the largest number of requests built
MaxReqs == 3

Conn(scope, state, ctx, life) ==
    [scope |-> scope, state |-> state, ctx |-> ctx, life |-> life]

Request(scope, h) == [scope |-> scope, bus |-> h]

\* the open connections of a scope
OpenConns(t) ==
    {h \in DOMAIN conns : conns[h].scope = t /\ conns[h].state = "open"}

\* NewBusRequest(ctx, t): getBus gives the bus of the context, or none; no
\* connection is made
NewBusRequest(t) ==
    /\ Len(reqs) < MaxReqs
    /\ \E h \in {0} \cup {i \in DOMAIN conns : /\ conns[i].scope = t
                                               /\ conns[i].state # "failed"} :
          reqs' = Append(reqs, Request(t, h))
    /\ UNCHANGED <<dbusCtx, conns>>
    /\ UNCHANGED <<mergeVars, busVars, trackerVars, diskVars, agentVars,
                   sigVars, reqVars, workerVars>>

\* NewBusRequest2(ctx, t): NewBus connects, the lifecycle goroutine starts,
\* the request carries the new bus
NewBusRequest2Ok(t) ==
    /\ Len(reqs) < MaxReqs
    /\ Len(conns) < MaxBuses
    /\ conns' = Append(conns, Conn(t, "open", "live", "waitCtx"))
    /\ reqs' = Append(reqs, Request(t, Len(conns) + 1))
    /\ UNCHANGED dbusCtx
    /\ UNCHANGED <<mergeVars, busVars, trackerVars, diskVars, agentVars,
                   sigVars, reqVars, workerVars>>

\* NewBusRequest2(ctx, t): connecting fails, NewBus calls cancelFunc() and
\* returns nil, the request carries no bus
NewBusRequest2Fail(t) ==
    /\ Len(reqs) < MaxReqs
    /\ Len(conns) < MaxBuses
    /\ conns' = Append(conns, Conn(t, "failed", "cancelled", "none"))
    /\ reqs' = Append(reqs, Request(t, 0))
    /\ UNCHANGED dbusCtx
    /\ UNCHANGED <<mergeVars, busVars, trackerVars, diskVars, agentVars,
                   sigVars, reqVars, workerVars>>

\* the lifecycle goroutine of connection h: <-ctx.Done(); b.wg.Wait() (no
\* watch was added, the counter is zero)
ConnCtxDone(h) ==
    /\ conns[h].life = "waitCtx"
    /\ busCtxDone
    /\ conns' = [conns EXCEPT ![h].life = "close"]
    /\ UNCHANGED <<dbusCtx, reqs>>
    /\ UNCHANGED <<mergeVars, busVars, trackerVars, diskVars, agentVars,
                   sigVars, reqVars, workerVars>>

\* the lifecycle goroutine of connection h returns: the deferred
\* cancelFunc() and conn.Close() run
ConnClose(h) ==
    /\ conns[h].life = "close"
    /\ conns' = [conns EXCEPT ![h] = Conn(@.scope, "closed", "cancelled",
                                          "done")]
    /\ UNCHANGED <<dbusCtx, reqs>>
    /\ UNCHANGED <<mergeVars, busVars, trackerVars, diskVars, agentVars,
                   sigVars, reqVars, workerVars>>

ConnNext ==
    \/ \E t \in Scopes : NewBusRequest(t)
    \/ \E t \in Scopes : NewBusRequest2Ok(t)
    \/ \E t \in Scopes : NewBusRequest2Fail(t)
    \/ BusCancel
    \/ \E h \in DOMAIN conns : ConnCtxDone(h)
    \/ \E h \in DOMAIN conns : ConnClose(h)

ConnInit ==
    /\ InitMergeWith(0)
    /\ InitBus
    /\ InitTracker
    /\ InitExt

ConnSpec == ConnInit /\ [][ConnNext]_vars

\* C23 (as claimed): the process never holds two open connections to the
\* bus of one scope.
C23_OneConnectionPerScope ==
    \A t \in Scopes : Cardinality(OpenConns(t)) <= 1

\* C24: after a failed connect NewBus has returned nil: the context it made
\* is cancelled, no lifecycle goroutine runs, nothing panicked, and the
\* operations called on the request built from it return the no-connection
\* error.
C24_FailedConnect ==
    bus = "nil" =>
       /\ dbusCtx = "cancelled"
       /\ lifePc = "none"
       /\ connCloses = 0
       /\ ~busPanic
       /\ ret.op \in {"GetProp", "SetProp", "Call", "RemoveWatch"}
             => ret.err = NoBus
       /\ prev.op \in {"GetProp", "SetProp", "Call", "RemoveWatch"}
             => prev.err = NoBus
       /\ ret.op = "GetData" => data = NilData
       /\ \A w \in Watches : watchPc[w] \in {"idle", "noconn"}

\* C24 witness: the connect failed and the process went on: GetProp and then
\* Call returned the no-connection error.
C24_Witness ==
    /\ bus = "nil"
    /\ dbusCtx = "cancelled"
    /\ prev.op = "GetProp" /\ prev.err = NoBus
    /\ ret.op = "Call" /\ ret.err = NoBus

\* a step of sendDiskUsageStats that takes an error branch: it leaves the
\* listing of the partitions without a list, or the query of a partition
\* without its usage
CycleFails ==
    \/ pollPc = "list" /\ pollPc' \notin {"list", "usage"}
    \/ pollPc = "usage" /\ pollPc' \notin {"usage", "send"}

\* C25: a collection cycle of the disk producer that fails ends there: nothing
\* is sent, the output channel and its closing goroutine are left alone, and
\* the polling goroutine is back waiting for the next tick of its schedule.
C25_FailedCycleSwallowed ==
    [][CycleFails =>
          /\ pollPc' = "wait"
          /\ sent' = sent
          /\ sensorCh' = sensorCh
          /\ diskCloserPc' = diskCloserPc
          /\ ctxDone' = ctxDone]_vars

\* C25 witness: the first cycle sent the usage of / and failed on /home; the
\* next tick ran a new cycle, which has sent the usage of / again.
C25_Witness ==
    /\ sent[DiskSrc] = <<newDiskSensor(1), newDiskSensor(1)>>
    /\ pollPc = "usage"
    /\ part = 2
    /\ ~ctxDone

\* GetProp has just returned a variant without error on a request with a
\* bus, and the step is SetProp with that variant
GetThenSet ==
    /\ bus = "open"
    /\ ret.op = "GetProp"
    /\ ret.err = "nil"
    /\ SetProp(ret.val)

\* C26: SetProp of the variant that the GetProp just before it returned
\* leaves the remote property as it was, and GetProp and SetProp leave the
\* request, its bus and its watches as they were.
C26_GetThenSetIsNoOp ==
    [][/\ GetThenSet => remote' = remote
       /\ (GetProp \/ \E v \in PropValues : SetProp(v))
             => UNCHANGED <<busVars, data, out>>
       /\ GetProp => remote' = remote]_vars

\* C26 witness: GetProp returned the variant of the property and the SetProp
\* after it succeeded; the property is the variant GetProp returned, which
\* is therefore the one SetProp was given.
C26_Witness ==
    /\ bus = "open"
    /\ calls = <<"GetProperty", "SetProperty">>
    /\ prev.op = "GetProp" /\ prev.err = "nil"
    /\ ret.op = "SetProp" /\ ret.err = "nil"
    /\ remote = prev.val

\* C27 (as claimed): when the shutdown goroutine of Run has called
\* cancelFunc, cancelFunc was assigned and the context is cancelled.
C27_CancelFuncAssigned ==
    (mode = "run" /\ shutPc = "done") => (ctxSet /\ ctxDone)

\* the three workers of Run
WorkersStarted ==
    workersPc # "none" \/ scriptsPc # "none" \/ notifyPc # "none"

WorkersReturned ==
    /\ workersPc = "returned"
    /\ scriptsPc \in {"returned", "noscripts"}
    /\ notifyPc = "returned"

\* C28: in Run the config goroutine finishes (and assigns the context) only
\* after the registration finished, the workers are started only after the
\* config goroutine finished, and Run returns only after the three workers
\* returned.
C28_PhaseOrder ==
    mode = "run" =>
       /\ (cfgPc = "done" \/ ctxSet) => regPc = "done"
       /\ (WorkersStarted \/ workPc = "done") => (cfgPc = "done" /\ ctxSet)
       /\ runPc = "returned" => (workPc = "done" /\ WorkersReturned)

\* C28 witness: Run has returned after its three workers ran and returned.
C28_Witness ==
    /\ mode = "run"
    /\ runPc = "returned"
    /\ regPc = "done" /\ cfgPc = "done" /\ workPc = "done"
    /\ workersPc = "returned"
    /\ scriptsPc = "returned"
    /\ notifyPc = "returned"

\* C29 (as claimed): the connection is closed at most once and only after
\* the context given to NewBus was cancelled, and once that context is
\* cancelled the connection is eventually closed, whatever watches were
\* added and under whatever context (a panic of a dispatch goroutine, which
\* ends the process, aside).
C29_CancelClosesConnection ==
    /\ [](connCloses <= 1)
    /\ [](connCloses > 0 => busCtxDone)
    /\ (bus = "open" /\ busCtxDone) ~> (connCloses = 1 \/ busPanic)

\* the watches whose dispatch goroutine runs, and the watches for which
\* AddWatch raised the wait counter of the bus and the counter was not yet
\* lowered again
RunningWatches == {w \in Watches : DispatchRunning(w)}

CountedWatches == {w \in Watches : watchPc[w] = "returned" /\ ~released[w]}

\* C30 (as claimed): the wait counter of the bus is the number of dispatch
\* goroutines that were started and have not exited.
C30_CounterEqualsRunning ==
    ~busPanic => busWg = Cardinality(RunningWatches)

\* C30 (amended): the wait counter of the bus is the number of watches that
\* AddWatch started and whose second goroutine has not yet called Done; it
\* is lowered for a watch only after the dispatch goroutine of the watch
\* has returned, so it is never below the number of running dispatch
\* goroutines and never negative.
C30_CounterTracksWatches ==
    /\ busWg = Cardinality(CountedWatches)
    /\ \A w \in Watches : released[w] => dispPc[w] = "exited"
    /\ busWg >= Cardinality(RunningWatches)
    /\ busWg >= 0

\* C30 witness: of two watches started, one has exited and the counter was
\* lowered for it, the other runs; the counter is one.
C30_Witness ==
    /\ busWg = 1
    /\ \E w \in Watches : released[w] /\ dispPc[w] = "exited"
    /\ \E w \in Watches : DispatchRunning(w)

\* C31: for a watch whose AddWatch returned the error of
\* AddMatchSignalContext nothing exists: no match rule, no registered
\* channel, no channel closed, no dispatch goroutine, no context kept; and
\* the wait counter of the bus counts the started watches alone.
C31_FailedMatchLeavesNothing ==
    /\ \A w \in Watches :
          watchPc[w] = "failed" =>
             /\ ~matchReg[w]
             /\ ~chReg[w]
             /\ chCloses[w] = 0
             /\ dispPc[w] = "none"
             /\ handling[w] = NoSignal
             /\ ~released[w]
             /\ watchCtx[w] = "none"
    /\ busWg <= Cardinality({w \in Watches : watchPc[w] = "returned"})

\* C31 witness: one AddWatch failed on the open connection while another
\* watch on it is started and running.
C31_Witness ==
    /\ bus = "open"
    /\ \E w \in Watches : watchPc[w] = "failed"
    /\ \E w \in Watches : watchPc[w] = "returned" /\ DispatchRunning(w)
    /\ busWg = 1

\* C32 (as claimed): the handler of a watch is called only with signals that
\* the match rules of that watch selected (or with the nil signal of a
\* closed channel, which no rule selected).
C32_OwnSignalsOnly ==
    \A w \in Watches :
       (dispPc[w] = "handling" /\ ~handling[w].nil) => handling[w].rule = w

\* the values the output goroutine of source s has received from the source:
\* the values sent on it that are no longer in its channel
Taken(s) == SubSeq(sent[s], 1, Len(sent[s]) - Len(sensorCh[s].buf))

\* how many of them were not received from out
Undelivered(s) == Len(Taken(s)) - Len(FromSource(received, s))

\* C33: of the values an output goroutine has received from its source, all
\* but at most the last were received from out, in their order; the last
\* one is missing only while the goroutine holds it in its select, or after
\* the goroutine returned with it on cancellation.
C33_AtMostOneDiscarded ==
    \A s \in Sources :
       /\ IsPrefix(FromSource(received, s), Taken(s))
       /\ Undelivered(s) \in {0, 1}
       /\ Undelivered(s) = 1 =>
             /\ held[s] = Taken(s)[Len(Taken(s))]
             /\ outputPc[s] \in {"select", "returned"}
             /\ outputPc[s] = "returned" => ctxDone

\* C33 witness: on cancellation an output goroutine returned with one value
\* it had received, after an earlier value of its source was received from
\* out, and a further value of the source is still in the source's channel.
C33_Witness ==
    \E s \in Sources :
       /\ ctxDone
       /\ outputPc[s] = "returned"
       /\ Undelivered(s) = 1
       /\ FromSource(received, s) # <<>>
       /\ sensorCh[s].buf # <<>>

(***************************************************************************)
(* The IDs of the disk usage sensors (diskUsage.go): one sensor for each   *)
(* partition, identified by diskSensor.ID() of its mount point.            *)
(***************************************************************************)
\* disk.UsageWithContext(ctx, partition.Mountpoint) and newDiskSensor(usage),
\* then ID() of the sensor
SensorID(p) ==
    /\ sensorID[p] = NoID
    /\ sensorID' = [sensorID EXCEPT ![p] = ID(mount[p])]
    /\ UNCHANGED mount
    /\ UNCHANGED exceptID

IDNext == \E p \in Mounts : SensorID(p)

\* the partitions disk.PartitionsWithContext lists: any mount points
IDInit ==
    /\ InitMergeWith(0)
    /\ InitBus
    /\ InitTracker
    /\ InitDisk
    /\ InitAgent
    /\ InitSig
    /\ InitReq
    /\ InitConn
    /\ mount \in [Mounts -> MountPoints]
    /\ sensorID = [p \in Mounts |-> NoID]
    /\ InitCron
    /\ InitCfg
    /\ InitMQTT
    /\ InitNotif

IDSpec == IDInit /\ [][IDNext]_vars

\* C34 (as claimed): the sensors of two partitions with different mount
\* points have different IDs.
C34_DistinctIDs ==
    \A p, q \in Mounts :
       (sensorID[p] # NoID /\ sensorID[q] # NoID /\ mount[p] # mount[q])
          => sensorID[p] # sensorID[q]

(***************************************************************************)
(* runScripts (agent.go, and the later version with a path and a tracker): *)
(* the scripts found are added to a cron scheduler, their outputs are      *)
(* merged, and the function waits for its context and then for the         *)
(* scheduler to stop.  The context is the context of the merger's model.   *)
(***************************************************************************)
\* the schedules a script can have
Schedules == {"empty", "valid", "invalid"}

\* runScripts(ctx) is called
RunScripts ==
    /\ rsPc = "none"
    /\ rsPc' = "find"
    /\ UNCHANGED <<lookup, allScripts, idx, jobs, outCh, cronPc, running,
                   merging>>
    /\ UNCHANGED exceptCron

\* StoragePath or FindScripts fails, or no script is found: log and return
FindNone ==
    /\ rsPc = "find"
    /\ lookup # "ok" \/ allScripts = <<>>
    /\ rsPc' = "returned"
    /\ UNCHANGED <<lookup, allScripts, idx, jobs, outCh, cronPc, running,
                   merging>>
    /\ UNCHANGED exceptCron

\* scripts were found: c := cron.New(), var outCh, and the loop begins
FindSome ==
    /\ rsPc = "find"
    /\ lookup = "ok" /\ allScripts # <<>>
    /\ rsPc' = "loop"
    /\ idx' = 1
    /\ UNCHANGED <<lookup, allScripts, jobs, outCh, cronPc, running, merging>>
    /\ UNCHANGED exceptCron

\* the loop body for a script without a schedule: nothing is added
LoopSkip ==
    /\ rsPc = "loop"
    /\ idx <= Len(allScripts)
    /\ allScripts[idx] = "empty"
    /\ idx' = idx + 1
    /\ UNCHANGED <<lookup, allScripts, rsPc, jobs, outCh, cronPc, running,
                   merging>>
    /\ UNCHANGED exceptCron

\* the loop body for a schedule AddJob accepts: the job is added and the
\* script's Output is appended to outCh
LoopAdd ==
    /\ rsPc = "loop"
    /\ idx <= Len(allScripts)
    /\ allScripts[idx] = "valid"
    /\ jobs' = jobs \cup {idx}
    /\ outCh' = Append(outCh, idx)
    /\ idx' = idx + 1
    /\ UNCHANGED <<lookup, allScripts, rsPc, cronPc, running, merging>>
    /\ UNCHANGED exceptCron

\* the loop body for a schedule AddJob rejects: log and break
LoopBreak ==
    /\ rsPc = "loop"
    /\ idx <= Len(allScripts)
    /\ allScripts[idx] = "invalid"
    /\ rsPc' = "start"
    /\ UNCHANGED <<lookup, allScripts, idx, jobs, outCh, cronPc, running,
                   merging>>
    /\ UNCHANGED exceptCron

\* the range over allScripts is exhausted
LoopEnd ==
    /\ rsPc = "loop"
    /\ idx > Len(allScripts)
    /\ rsPc' = "start"
    /\ UNCHANGED <<lookup, allScripts, idx, jobs, outCh, cronPc, running,
                   merging>>
    /\ UNCHANGED exceptCron

\* c.Start(), then go func() { for s := range mergeSensorCh(ctx, outCh...) },
\* then runScripts blocks in <-ctx.Done()
CronStart ==
    /\ rsPc = "start"
    /\ cronPc' = "started"
    /\ merging' = TRUE
    /\ rsPc' = "wait"
    /\ UNCHANGED <<lookup, allScripts, idx, jobs, outCh, running>>
    /\ UNCHANGED exceptCron

\* the started scheduler runs a job on its schedule
JobRun(j) ==
    /\ cronPc = "started"
    /\ j \in jobs
    /\ j \notin running
    /\ running' = running \cup {j}
    /\ UNCHANGED <<lookup, allScripts, rsPc, idx, jobs, outCh, cronPc,
                   merging>>
    /\ UNCHANGED exceptCron

\* a running job finishes
JobDone(j) ==
    /\ j \in running
    /\ running' = running \ {j}
    /\ UNCHANGED <<lookup, allScripts, rsPc, idx, jobs, outCh, cronPc,
                   merging>>
    /\ UNCHANGED exceptCron

\* a variant of CronStop that returns without waiting for the running jobs
CronStopNoWait ==
    /\ rsPc = "wait"
    /\ ctxDone
    /\ cronPc' = "stopped"
    /\ rsPc' = "returned"
    /\ UNCHANGED <<lookup, allScripts, idx, jobs, outCh, running, merging>>
    /\ UNCHANGED exceptCron

\* <-ctx.Done() returns; cronCtx := c.Stop(): the scheduler starts no further
\* job, and cronCtx is done once the running jobs have finished
CronStop ==
    /\ rsPc = "wait"
    /\ ctxDone
    /\ cronPc' = "stopped"
    /\ rsPc' = "stopping"
    /\ UNCHANGED <<lookup, allScripts, idx, jobs, outCh, running, merging>>
    /\ UNCHANGED exceptCron

\* <-cronCtx.Done() returns: no job is running; runScripts returns
CronDone ==
    /\ rsPc = "stopping"
    /\ running = {}
    /\ rsPc' = "returned"
    /\ UNCHANGED <<lookup, allScripts, idx, jobs, outCh, cronPc, running,
                   merging>>
    /\ UNCHANGED exceptCron

ScriptNext ==
    \/ RunScripts
    \/ FindNone
    \/ FindSome
    \/ LoopSkip
    \/ LoopAdd
    \/ LoopBreak
    \/ LoopEnd
    \/ CronStart
    \/ \E j \in 1..MaxScripts : JobRun(j)
    \/ \E j \in 1..MaxScripts : JobDone(j)
    \/ CronStop
    \/ CronDone
    \/ Cancel

\* the scripts directory holds any scripts, or finding them fails
ScriptInit ==
    /\ InitMergeWith(0)
    /\ InitBus
    /\ InitTracker
    /\ InitDisk
    /\ InitAgent
    /\ InitSig
    /\ InitReq
    /\ InitConn
    /\ InitID
    /\ lookup \in {"ok", "nopath", "error"}
    /\ allScripts \in UNION {[1..n -> Schedules] : n \in 0..MaxScripts}
    /\ rsPc = "none"
    /\ idx = 0
    /\ jobs = {}
    /\ outCh = <<>>
    /\ cronPc = "new"
    /\ running = {}
    /\ merging = FALSE
    /\ InitCfg
    /\ InitMQTT
    /\ InitNotif

ScriptSpec == ScriptInit /\ [][ScriptNext]_vars

\* runScripts found scripts and went past its early returns
ScriptsFound == lookup = "ok" /\ allScripts # <<>>

\* C35: a runScripts that found scripts has returned only after its context
\* was cancelled, with the scheduler stopped and no job running; a
\* runScripts that found none, or failed to look, has returned without
\* starting the scheduler or the merger, and it never waits.
C35_ReturnsAfterStop ==
    /\ (rsPc = "returned" /\ ScriptsFound) =>
          ctxDone /\ cronPc = "stopped" /\ running = {}
    /\ (rsPc \notin {"none", "find"} /\ ~ScriptsFound) =>
          rsPc = "returned" /\ cronPc = "new" /\ ~merging /\ jobs = {}
    /\ running # {} => rsPc \in {"wait", "stopping"}

\* C35 witness: a runScripts that added a job and started the merger has
\* returned.
C35_Witness ==
    /\ rsPc = "returned"
    /\ ScriptsFound
    /\ jobs # {}
    /\ merging

\* C36 (as claimed): once the loop of runScripts is over, every script with
\* a valid schedule is a job of the scheduler and its Output is in outCh.
C36_OthersStillScheduled ==
    (rsPc \in {"start", "wait", "stopping", "returned"} /\ ScriptsFound) =>
       \A i \in DOMAIN allScripts :
          allScripts[i] = "valid" =>
             /\ i \in jobs
             /\ \E k \in DOMAIN outCh : outCh[k] = i

(***************************************************************************)
(* agentConfig.Upgrade (config.go): the stored version decides which       *)
(* upgrades run; then the version of the running agent is stored.          *)
(***************************************************************************)
\* semver.Compare(v, w) of two valid versions: -1, 0 or 1
RECURSIVE Compare(_, _)
Compare(v, w) ==
    IF v = <<>> THEN 0
    ELSE IF Head(v) < Head(w) THEN -1
    ELSE IF Head(v) > Head(w) THEN 1
    ELSE Compare(Tail(v), Tail(w))

\* the schemes of a URL and their spelling in front of the authority
SchemePiece ==
    [http |-> "http://", https |-> "https://", ws |-> "ws://",
     wss |-> "wss://"]

\* url.Parse(s) of a string that begins with a scheme, or with none
Parse(s) ==
    IF s # <<>> /\ s[1] = "http://" THEN [Scheme |-> "http", rest |-> Tail(s)]
    ELSE IF s # <<>> /\ s[1] = "https://"
         THEN [Scheme |-> "https", rest |-> Tail(s)]
    ELSE [Scheme |-> "", rest |-> s]

\* (*URL).JoinPath(elem...)
JoinPath(u, elem) == [u EXCEPT !.rest = u.rest \o elem]

\* (*URL).String()
String(u) ==
    IF u.Scheme = "" THEN u.rest ELSE <<SchemePiece[u.Scheme]>> \o u.rest

websocketPath == "/api/websocket"

webHookPath == "/api/webhook/"

\* generateWebsocketURL()
generateWebsocketURL(p) ==
    LET url == Parse(p.Host)
        ws == [url EXCEPT !.Scheme = IF url.Scheme = "https" THEN "wss"
                                     ELSE "ws"]
    IN  [p EXCEPT !.WebSocketURL = String(JoinPath(ws, <<websocketPath>>))]

\* generateAPIURL()
generateAPIURL(p) ==
    LET apiURL ==
          IF p.CloudhookURL # <<>> THEN p.CloudhookURL
          ELSE IF p.RemoteUIURL # <<>> /\ p.WebhookID # <<>>
               THEN p.RemoteUIURL \o <<webHookPath>> \o p.WebhookID
          ELSE IF p.WebhookID # <<>> /\ p.Host # <<>>
               THEN String(JoinPath(Parse(p.Host),
                                    <<webHookPath>> \o p.WebhookID))
          ELSE <<>>
    IN  [p EXCEPT !.ApiURL = apiURL]

\* the first case of Upgrade: the scheme is put in front of the host
PrefixScheme(p) ==
    [p EXCEPT !.Host = IF p.UseTLS THEN <<"https://">> \o p.Host
                       ELSE <<"http://">> \o p.Host]

\* a variant of SetVersion in which the version is not stored
SetVersionNotStored(p) == p

\* c.Set("Version", Version)
SetVersion(p) == [p EXCEPT !.Version = Version]

\* Upgrade(), on the preferences p
UpgradePrefs(p) ==
    LET versionString == p.Version
        a == IF Compare(versionString, <<1, 4, 0>>) < 0
             THEN PrefixScheme(p) ELSE p
        b == IF \/ Compare(versionString, <<1, 4, 0>>) < 0
                \/ Compare(versionString, <<1, 4, 3>>) < 0
             THEN generateWebsocketURL(generateAPIURL(a)) ELSE a
    IN  SetVersion(b)

\* the most runs of Upgrade
MaxUpgrades == 2

\* Upgrade() is called
Upgrade ==
    /\ upgrades < MaxUpgrades
    /\ prefs' = UpgradePrefs(prefs)
    /\ upgrades' = upgrades + 1
    /\ first' = IF upgrades = 0 THEN prefs' ELSE first
    /\ UNCHANGED stored
    /\ UNCHANGED exceptCfg

CfgNext == Upgrade

\* the versions that stored the preferences
StoredVersions == {<<1, 3, 9>>, <<1, 4, 0>>, <<1, 4, 2>>, <<1, 4, 3>>,
                   Version}

\* the host names entered at registration
HostNames == {<<"ha.local">>, <<"ha.local", ":8123">>}

\* the preferences an agent of some version stored: before v1.4.0 the host
\* has no scheme, from v1.4.0 on it has one; before v1.4.3 ApiURL and
\* WebSocketURL are not stored, from v1.4.3 on they are generated from the
\* rest
StoredPrefs ==
    {LET q == Prefs(v, IF Compare(v, <<1, 4, 0>>) < 0 THEN h ELSE <<s>> \o h,
                    tls, w, c, r)
     IN  IF Compare(v, <<1, 4, 3>>) < 0 THEN q
         ELSE generateWebsocketURL(generateAPIURL(q)) :
       v \in StoredVersions, h \in HostNames, s \in {"http://", "https://"},
       tls \in BOOLEAN, w \in {<<>>, <<"hook">>},
       c \in {<<>>, <<"https://", "hooks.nabu.casa", "/x">>},
       r \in {<<>>, <<"https://", "ui.nabu.casa">>}}

CfgInit ==
    /\ InitMergeWith(0)
    /\ InitBus
    /\ InitTracker
    /\ InitDisk
    /\ InitAgent
    /\ InitSig
    /\ InitReq
    /\ InitConn
    /\ InitID
    /\ InitCron
    /\ prefs \in StoredPrefs
    /\ stored = prefs
    /\ first = prefs
    /\ upgrades = 0
    /\ InitMQTT
    /\ InitNotif

CfgSpec == CfgInit /\ [][CfgNext]_vars

\* how many schemes a host begins with
RECURSIVE Schemes(_)
Schemes(h) ==
    IF h # <<>> /\ h[1] \in {"http://", "https://"}
    THEN 1 + Schemes(Tail(h)) ELSE 0

\* C39: every later Upgrade leaves Host, ApiURL, WebSocketURL and Version as
\* the first one left them, for every stored version and useTLS, and the
\* host never begins with more than one scheme.
C39_UpgradeIdempotent ==
    /\ upgrades >= 2 =>
          /\ prefs.Host = first.Host
          /\ prefs.ApiURL = first.ApiURL
          /\ prefs.WebSocketURL = first.WebSocketURL
          /\ prefs.Version = first.Version
    /\ Schemes(prefs.Host) <= 1

\* C39 witness: Upgrade ran twice on preferences stored before v1.4.0 with
\* useTLS set; the first run put https:// in front of the host and
\* generated the two URLs.
C39_Witness ==
    /\ upgrades = 2
    /\ Compare(stored.Version, <<1, 4, 0>>) < 0
    /\ stored.UseTLS
    /\ stored.Host = <<"ha.local", ":8123">>
    /\ prefs.Host = <<"https://", "ha.local", ":8123">>
    /\ prefs.WebSocketURL = <<"wss://", "ha.local", ":8123", "/api/websocket">>
    /\ prefs.Version = Version

(***************************************************************************)
(* runMQTTWorker and resetMQTTWorker: both read MQTTRegistered from the    *)
(* preferences embedded in their context (preferences.FetchFromContext)    *)
(* and write it with preferences.Save.                                     *)
(***************************************************************************)
\* the most calls of the workers
MaxMqttCalls == 4

Outcomes == {"ok", "fail"}

\* prefs, err := preferences.Load(); ctx := preferences.EmbedInContext(...,
\* prefs): a context with the saved preferences is made
LoadPrefs ==
    /\ ctxReg # savedReg
    /\ ctxReg' = savedReg
    /\ UNCHANGED <<savedReg, brokerReg, lastCall, mqttCalls>>
    /\ UNCHANGED exceptMQTT

\* runMQTTWorker(ctx), with the outcomes of NewMQTTClient, Register and
\* preferences.Save; the outcome of Subscribe is only logged
RunMQTTWorker(client, register, save) ==
    /\ mqttCalls < MaxMqttCalls
    /\ mqttCalls' = mqttCalls + 1
    /\ UNCHANGED ctxReg
    /\ IF client = "fail"
       THEN /\ lastCall' = WorkerCall("run", ctxReg, savedReg, "none", "none", FALSE)
            /\ UNCHANGED <<savedReg, brokerReg>>
       ELSE IF ~ctxReg
       THEN IF register = "fail"
            THEN /\ lastCall' = WorkerCall("run", ctxReg, savedReg, "fail", "none",
                                     FALSE)
                 /\ UNCHANGED <<savedReg, brokerReg>>
            ELSE /\ brokerReg' = TRUE
                 /\ savedReg' = IF save = "ok" THEN TRUE ELSE savedReg
                 /\ lastCall' = WorkerCall("run", ctxReg, savedReg, "ok", "none",
                                     TRUE)
       ELSE /\ lastCall' = WorkerCall("run", ctxReg, savedReg, "none", "none", TRUE)
            /\ UNCHANGED <<savedReg, brokerReg>>
    /\ UNCHANGED exceptMQTT

\* resetMQTTWorker(ctx), with the outcomes of NewMQTTClient, UnRegister and
\* preferences.Save
ResetMQTTWorker(client, unregister, save) ==
    /\ mqttCalls < MaxMqttCalls
    /\ mqttCalls' = mqttCalls + 1
    /\ UNCHANGED ctxReg
    /\ IF client = "fail" \/ ~ctxReg
       THEN /\ lastCall' = WorkerCall("reset", ctxReg, savedReg, "none", "none",
                                FALSE)
            /\ UNCHANGED <<savedReg, brokerReg>>
       ELSE IF unregister = "fail"
       THEN /\ lastCall' = WorkerCall("reset", ctxReg, savedReg, "none", "fail",
                                FALSE)
            /\ UNCHANGED <<savedReg, brokerReg>>
       ELSE /\ brokerReg' = FALSE
            /\ savedReg' = IF save = "ok" THEN FALSE ELSE savedReg
            /\ lastCall' = WorkerCall("reset", ctxReg, savedReg, "none", "ok", FALSE)
    /\ UNCHANGED exceptMQTT

MqttNext ==
    \/ LoadPrefs
    \/ \E c, r, s \in Outcomes : RunMQTTWorker(c, r, s)
    \/ \E c, u, s \in Outcomes : ResetMQTTWorker(c, u, s)

\* an agent that was registered over MQTT by an earlier run, or was not;
\* its context holds the saved preferences
MqttInit ==
    /\ InitMergeWith(0)
    /\ InitBus
    /\ InitTracker
    /\ InitDisk
    /\ InitAgent
    /\ InitSig
    /\ InitReq
    /\ InitConn
    /\ InitID
    /\ InitCron
    /\ InitCfg
    /\ savedReg \in BOOLEAN
    /\ ctxReg = savedReg
    /\ brokerReg = savedReg
    /\ lastCall = NoCall
    /\ mqttCalls = 0
    /\ InitNotif

MqttSpec == MqttInit /\ [][MqttNext]_vars

\* C38 (as claimed): in every call of a worker, the saved MQTTRegistered
\* becomes true only with a successful Register and false only with a
\* successful UnRegister, Register is attempted only while it is false and
\* UnRegister only while it is true, and a failed Register leaves it
\* unchanged and is not followed by Subscribe.
C38_PreferenceTracksRegistration ==
    /\ (lastCall.fn # "none" /\ savedReg /\ ~lastCall.before) =>
          lastCall.register = "ok"
    /\ (lastCall.fn # "none" /\ ~savedReg /\ lastCall.before) =>
          lastCall.unregister = "ok"
    /\ lastCall.register # "none" => ~lastCall.before
    /\ lastCall.unregister # "none" => lastCall.before
    /\ lastCall.register = "fail" =>
          ~lastCall.subscribed /\ savedReg = lastCall.before

(***************************************************************************)
(* runNotificationsWorker: one goroutine displays the notifications it     *)
(* receives from notifyCh, another calls api.StartWebsocket(ctx, notifyCh) *)
(* again and again; the function waits for both.  The context is the       *)
(* context of the merger's model.  api.StartWebsocket returns when the     *)
(* connection is lost and when the context is cancelled.                   *)
(***************************************************************************)
\* the most returns of the listener while the context is alive
MaxRestarts == 2

\* the most notifications received
MaxNotes == 2

\* notifyCh := make(chan [2]string), wg.Add(1) and go func() twice, then
\* wg.Wait()
RunNotificationsWorker ==
    /\ nwPc = "none"
    /\ nwPc' = "wait"
    /\ handlerPc' = "select"
    /\ wsPc' = "select"
    /\ nwWg' = 2
    /\ UNCHANGED <<starts, notes, shown>>
    /\ UNCHANGED exceptNotif

\* a variant of HandlerCtxDone without the deferred wg.Done()
HandlerCtxDoneNoDone ==
    /\ handlerPc = "select"
    /\ ctxDone
    /\ handlerPc' = "returned"
    /\ UNCHANGED <<nwPc, wsPc, nwWg, starts, notes, shown>>
    /\ UNCHANGED exceptNotif

\* the displaying goroutine: case <-ctx.Done(): return, defer wg.Done()
HandlerCtxDone ==
    /\ handlerPc = "select"
    /\ ctxDone
    /\ handlerPc' = "returned"
    /\ nwWg' = nwWg - 1
    /\ UNCHANGED <<nwPc, wsPc, starts, notes, shown>>
    /\ UNCHANGED exceptNotif

\* the displaying goroutine: case n := <-notifyCh, which completes the
\* listener's send on the unbuffered channel
HandlerRecv ==
    /\ handlerPc = "select"
    /\ wsPc = "sending"
    /\ handlerPc' = "display"
    /\ wsPc' = "listening"
    /\ UNCHANGED <<nwPc, nwWg, starts, notes, shown>>
    /\ UNCHANGED exceptNotif

\* agent.ui.DisplayNotification(n[0], n[1]), and the loop goes round
HandlerDisplay ==
    /\ handlerPc = "display"
    /\ handlerPc' = "select"
    /\ shown' = shown + 1
    /\ UNCHANGED <<nwPc, wsPc, nwWg, starts, notes>>
    /\ UNCHANGED exceptNotif

\* the listening goroutine: case <-ctx.Done(): return, defer wg.Done()
WsCtxDone ==
    /\ wsPc = "select"
    /\ ctxDone
    /\ wsPc' = "returned"
    /\ nwWg' = nwWg - 1
    /\ UNCHANGED <<nwPc, handlerPc, starts, notes, shown>>
    /\ UNCHANGED exceptNotif

\* the listening goroutine: default: api.StartWebsocket(ctx, notifyCh)
WsStart ==
    /\ wsPc = "select"
    /\ ~ctxDone
    /\ wsPc' = "listening"
    /\ starts' = starts + 1
    /\ UNCHANGED <<nwPc, handlerPc, nwWg, notes, shown>>
    /\ UNCHANGED exceptNotif

\* api.StartWebsocket: a notification arrives and is sent on notifyCh
WsNotify ==
    /\ wsPc = "listening"
    /\ notes < MaxNotes
    /\ wsPc' = "sending"
    /\ notes' = notes + 1
    /\ UNCHANGED <<nwPc, handlerPc, nwWg, starts, shown>>
    /\ UNCHANGED exceptNotif

\* api.StartWebsocket returns while the context is alive: the connection
\* was lost
WsLost ==
    /\ wsPc = "listening"
    /\ ~ctxDone
    /\ starts <= MaxRestarts
    /\ wsPc' = "select"
    /\ UNCHANGED <<nwPc, handlerPc, nwWg, starts, notes, shown>>
    /\ UNCHANGED exceptNotif

\* api.StartWebsocket returns because the context is cancelled, also out
\* of a send on notifyCh that nobody receives
WsCancelled ==
    /\ wsPc \in {"listening", "sending"}
    /\ ctxDone
    /\ wsPc' = "select"
    /\ UNCHANGED <<nwPc, handlerPc, nwWg, starts, notes, shown>>
    /\ UNCHANGED exceptNotif

\* wg.Wait() returns, and runNotificationsWorker with it
NotifWait ==
    /\ nwPc = "wait"
    /\ nwWg = 0
    /\ nwPc' = "returned"
    /\ UNCHANGED <<handlerPc, wsPc, nwWg, starts, notes, shown>>
    /\ UNCHANGED exceptNotif

NotifNext ==
    \/ RunNotificationsWorker
    \/ HandlerCtxDone
    \/ HandlerRecv
    \/ HandlerDisplay
    \/ WsCtxDone
    \/ WsStart
    \/ WsNotify
    \/ WsLost
    \/ WsCancelled
    \/ NotifWait
    \/ Cancel

NotifInit ==
    /\ InitMergeWith(0)
    /\ InitBus
    /\ InitTracker
    /\ InitDisk
    /\ InitAgent
    /\ InitSig
    /\ InitReq
    /\ InitConn
    /\ InitID
    /\ InitCron
    /\ InitCfg
    /\ InitMQTT
    /\ InitNotif

\* every goroutine that can take a step takes one; the listener returns
\* once the context is cancelled.  Nothing obliges a notification to
\* arrive, the connection to be lost or the context to be cancelled.
NotifFairness ==
    /\ WF_vars(HandlerCtxDone)
    /\ WF_vars(HandlerRecv)
    /\ WF_vars(HandlerDisplay)
    /\ WF_vars(WsCtxDone)
    /\ WF_vars(WsStart)
    /\ WF_vars(WsCancelled)
    /\ WF_vars(NotifWait)

NotifSpec == NotifInit /\ [][NotifNext]_vars /\ NotifFairness

\* C37: a listener that returned while the context is alive is started
\* again; no goroutine of runNotificationsWorker exits while the context is
\* alive; and once the context is cancelled both goroutines exit and
\* runNotificationsWorker returns.
C37_RestartsThenExits ==
    /\ [](wsPc = "returned" \/ handlerPc = "returned" => ctxDone)
    /\ (wsPc = "select" /\ ~ctxDone) ~> (wsPc = "listening" \/ ctxDone)
    /\ (nwPc = "wait" /\ ctxDone) ~>
          (nwPc = "returned" /\ wsPc = "returned" /\ handlerPc = "returned")

\* C37 witness: runNotificationsWorker returned after the listener was
\* started three times and gave up a send nobody received.
C37_Witness ==
    /\ nwPc = "returned"
    /\ starts = 3
    /\ notes > shown

=============================================================================
